---------------------------- MODULE Spec2Model ----------------------------
(***************************************************************************)
(* A model of the core of the deduplicator package: the label algebra of   *)
(* utils/er_utils.py, the pair-counting metrics of metrics/functional.py,  *)
(* the blocking rules of blockings/rules and the Deduplicator engine.      *)
(* Each part has its own specification (SpecEr, SpecMetrics, SpecRules,    *)
(* SpecDedup); the variables of the other parts stay idle under it.        *)
(***************************************************************************)
EXTENDS Integers, Sequences, FiniteSets, TLC

(***************************************************************************)
(* Generic helpers                                                         *)
(***************************************************************************)

\* the value Python's None is modelled by
None == "None"

Min(S) == CHOOSE x \in S : \A y \in S : x <= y

Max(S) == CHOOSE x \in S : \A y \in S : y <= x

\* the elements of a finite set of integers in ascending order
RECURSIVE SortedSeq(_)
SortedSeq(S) == IF S = {} THEN << >> ELSE <<Min(S)>> \o SortedSeq(S \ {Min(S)})

Range(s) == {s[k] : k \in DOMAIN s}

\* the one element of a singleton set; Only({F(x) : x \in {e}}) is F(e)
\* with e evaluated once
Only(S) == CHOOSE x \in S : TRUE

\* f and S themselves, written out element by element: TLC keeps a function
\* or set constructor unevaluated and evaluates it again at every use
Tabulated(f) == f @@ f

Enumerated(S) == {x : x \in S}

\* C(n, 2)
Comb2(n) == (n * (n - 1)) \div 2

\* the connected component of vertex v in the undirected graph with edge
\* set E (a set of two-element sets), grown from {v} to a fixpoint
RECURSIVE Grow(_, _)
Grow(E, S) ==
    Only({IF T = S THEN S ELSE Grow(E, T) :
             T \in {S \cup {w \in UNION E : \E u \in S : {u, w} \in E}}})

Component(E, v) == Grow(E, {v})

\* two label vectors over the same index set induce the same partition
SamePartition(f, g) ==
    /\ DOMAIN f = DOMAIN g
    /\ \A i, j \in DOMAIN f : (f[i] = f[j]) <=> (g[i] = g[j])

(***************************************************************************)
(* Part 1: utils/er_utils.py, labels <-> pairs                             *)
(***************************************************************************)

\* largest total_mentions explored
MaxMentions == 4

\* largest cluster id in a label list given directly to labels_to_pairs
MaxLabel == 1

VARIABLES
    total_mentions,   \* argument of pairs_to_labels; length of the label list
    drop_singletons,  \* argument of pairs_to_labels (read by the labelling loop)
    pairs,            \* the linked pairs consumed so far, as unordered pairs
    node_matches,     \* the list of (shared) sets built by pairs_to_labels
    labels,           \* a label list: result of pairs_to_labels or an input
    labels_src,       \* where labels comes from
    out_pairs,        \* result of labels_to_pairs(labels)
    er_pc             \* position in the er_utils scenario

vars_er == <<total_mentions, drop_singletons, pairs, node_matches, labels,
             labels_src, out_pairs, er_pc>>

Mentions == 0 .. (total_mentions - 1)

\* er_utils.py:99  node_matches = [{i} for i in range(total_mentions)].
\* Python lists hold references: ref[i] names the set object slot i points
\* to, obj[k] is the content of set object k.
NewNodeMatches(n) ==
    [ref |-> [i \in 0 .. (n - 1) |-> i], obj |-> [i \in 0 .. (n - 1) |-> {i}]]

\* a variant that forgets to alias node_b's slot to the merged set
LinkPairNoAlias(nm, node_a, node_b) ==
    [ref |-> nm.ref,
     obj |-> [nm.obj EXCEPT ![nm.ref[node_a]] = @ \cup nm.obj[nm.ref[node_b]]]]

\* er_utils.py:102-104, the body of the loop over pairs
LinkPair(nm, node_a, node_b) ==
    [ref |-> [nm.ref EXCEPT ![node_b] = nm.ref[node_a]],
     obj |-> [nm.obj EXCEPT ![nm.ref[node_a]] = @ \cup nm.obj[nm.ref[node_b]]]]

\* The identity of a set object is immaterial: name each object by the lowest
\* slot that refers to it and forget the objects no slot refers to.
Normalize(nm) ==
    LET name(i) == Min({j \in DOMAIN nm.ref : nm.ref[j] = nm.ref[i]})
    IN  [ref |-> [i \in DOMAIN nm.ref |-> name(i)],
         obj |-> [k \in DOMAIN nm.obj |->
                    IF name(k) = k THEN nm.obj[nm.ref[k]] ELSE {}]]

\* the set slot `node` of node_matches refers to
Linked(nm, node) == nm.obj[nm.ref[node]]

\* er_utils.py:108-115, the labelling loop from `node` on
RECURSIVE AssignFrom(_, _, _, _, _, _)
AssignFrom(nm, n, drop, node, final_labels, cluster_idx) ==
    IF node >= n THEN final_labels
    ELSE IF final_labels[node] > -1
         THEN AssignFrom(nm, n, drop, node + 1, final_labels, cluster_idx)
    ELSE IF drop /\ Cardinality(Linked(nm, node)) = 1
         THEN AssignFrom(nm, n, drop, node + 1, final_labels, cluster_idx)
    ELSE AssignFrom(nm, n, drop, node + 1,
                    [l \in 0 .. (n - 1) |->
                        IF l \in Linked(nm, node) THEN cluster_idx
                        ELSE final_labels[l]],
                    cluster_idx + 1)

\* er_utils.py:106-116, final_labels from node_matches
AssignLabels(nm, n, drop) ==
    AssignFrom(nm, n, drop, 0, [i \in 0 .. (n - 1) |-> -1], 0)

AssertionError == "AssertionError"

\* a variant that appends (linked_node, node)
PairsOfNodeSwapped(labs, node) ==
    LET earlier == SortedSeq({m \in DOMAIN labs : m < node /\ labs[m] = labs[node]})
    IN  [k \in 1 .. Len(earlier) |-> <<earlier[k], node>>]

\* er_utils.py:76-77, the pairs appended for `node`: one per earlier node of
\* the same label, in the order clusters_dict lists them (ascending)
PairsOfNode(labs, node) ==
    LET earlier == SortedSeq({m \in DOMAIN labs : m < node /\ labs[m] = labs[node]})
    IN  [k \in 1 .. Len(earlier) |-> <<node, earlier[k]>>]

RECURSIVE PairsFrom(_, _, _)
PairsFrom(labs, n, node) ==
    IF node >= n THEN << >>
    ELSE PairsOfNode(labs, node) \o PairsFrom(labs, n, node + 1)

\* a variant whose clusters_dict forgets the first node of each cluster
PairsOfNodeLossy(labs, node) ==
    LET same == {m \in DOMAIN labs : m < node /\ labs[m] = labs[node]}
        earlier == SortedSeq(same \ (IF same = {} THEN {} ELSE {Min(same)}))
    IN  [k \in 1 .. Len(earlier) |-> <<node, earlier[k]>>]

RECURSIVE PairsFromLossy(_, _, _)
PairsFromLossy(labs, n, node) ==
    IF node >= n THEN << >>
    ELSE PairsOfNodeLossy(labs, node) \o PairsFromLossy(labs, n, node + 1)

labels_to_pairs_lossy(labs, n) ==
    IF \E i \in DOMAIN labs : labs[i] = -1 THEN AssertionError
    ELSE PairsFromLossy(labs, n, 0)

\* er_utils.py:59-79
labels_to_pairs(labs, n) ==
    IF \E i \in DOMAIN labs : labs[i] = -1 THEN AssertionError
    ELSE PairsFrom(labs, n, 0)

InitEr ==
    /\ total_mentions \in 1 .. MaxMentions
    /\ drop_singletons = FALSE
    /\ pairs = {}
    /\ node_matches = NewNodeMatches(total_mentions)
    /\ labels = None
    /\ labels_src = None
    /\ out_pairs = None
    /\ er_pc = "linking"

\* one iteration of `for pair in pairs` (er_utils.py:101-104); the pair is
\* any pair of distinct mentions not linked by an earlier pair of the list,
\* in either orientation
ConsumePair ==
    /\ er_pc = "linking"
    /\ \E node_a, node_b \in Mentions :
          /\ node_a # node_b
          /\ {node_a, node_b} \notin pairs
          /\ node_matches' = Normalize(LinkPair(node_matches, node_a, node_b))
          /\ pairs' = pairs \cup {{node_a, node_b}}
    /\ UNCHANGED <<total_mentions, drop_singletons, labels, labels_src,
                   out_pairs, er_pc>>

\* the rest of pairs_to_labels once the list of pairs is exhausted
FinishPairsToLabels ==
    /\ er_pc = "linking"
    /\ \E drop \in BOOLEAN :
          /\ drop_singletons' = drop
          /\ labels' = AssignLabels(node_matches, total_mentions, drop)
    /\ labels_src' = "pairs_to_labels"
    /\ er_pc' = "labels"
    /\ UNCHANGED <<total_mentions, pairs, node_matches, out_pairs>>

\* a caller hands a label list of its own to labels_to_pairs
GiveLabels ==
    /\ er_pc = "linking"
    /\ pairs = {}
    /\ \E L \in [Mentions -> -1 .. MaxLabel] : labels' = L
    /\ labels_src' = "input"
    /\ er_pc' = "labels"
    /\ UNCHANGED <<total_mentions, drop_singletons, pairs, node_matches, out_pairs>>

CallLabelsToPairs ==
    /\ er_pc = "labels"
    /\ out_pairs' = labels_to_pairs(labels, total_mentions)
    /\ er_pc' = "pairs"
    /\ UNCHANGED <<total_mentions, drop_singletons, pairs, node_matches, labels,
                   labels_src>>


(***************************************************************************)
(* Part 2: metrics/functional.py, pair-counting metrics                    *)
(***************************************************************************)

\* largest length of the label lists given to the metrics
MaxMetricLen == 4

\* largest cluster id in the label lists given to the metrics
MaxMetricLabel == 2

VARIABLES
    true_labels,   \* argument of the metric functions
    pred_labels,   \* argument of the metric functions
    cm,            \* result of confusion_matrix
    m_pc           \* position in the metrics scenario

vars_metrics == <<true_labels, pred_labels, cm, m_pc>>

RECURSIVE SumOver(_, _)
SumOver(S, f) ==
    IF S = {} THEN 0
    ELSE LET x == CHOOSE y \in S : TRUE IN f[x] + SumOver(S \ {x}, f)

\* np.unique(..., return_counts=True)[1] followed by np.sum(comb(sizes, 2)):
\* key is the label vector (or the vector of label tuples) that is counted
SumComb2OfCounts(key) ==
    LET vals == {key[i] : i \in DOMAIN key}
        size == [v \in vals |-> Comb2(Cardinality({i \in DOMAIN key : key[i] = v}))]
    IN  SumOver(vals, size)

\* functional.py:114-116 (and 64-68), pairs sharing both labels
PairsInCells(t_labels, p_labels) ==
    SumComb2OfCounts([i \in DOMAIN p_labels |-> <<p_labels[i], t_labels[i]>>])

\* a variant that subtracts the same-true pairs instead of FN
confusion_matrix_tn_bug(t_labels, p_labels) ==
    LET tp == PairsInCells(t_labels, p_labels)
        p  == SumComb2OfCounts(p_labels)
        t  == SumComb2OfCounts(t_labels)
    IN  [TP |-> tp, FP |-> p - tp, FN |-> t - tp,
         TN |-> Comb2(Cardinality(DOMAIN p_labels)) - p - t]

\* functional.py:105-129
confusion_matrix(t_labels, p_labels) ==
    LET tp == PairsInCells(t_labels, p_labels)
        p  == SumComb2OfCounts(p_labels)
        t  == SumComb2OfCounts(t_labels)
        fp == p - tp
        fn == t - tp
        tn == Comb2(Cardinality(DOMAIN p_labels)) - p - fn
    IN  [TP |-> tp, FP |-> fp, FN |-> fn, TN |-> tn]

InitMetrics ==
    /\ \E n \in 1 .. MaxMetricLen :
          /\ true_labels \in [0 .. (n - 1) -> 0 .. MaxMetricLabel]
          /\ pred_labels \in [0 .. (n - 1) -> 0 .. MaxMetricLabel]
    /\ cm = None
    /\ m_pc = "input"

CallConfusionMatrix ==
    /\ m_pc = "input"
    /\ cm' = confusion_matrix(true_labels, pred_labels)
    /\ m_pc' = "confusion_matrix"
    /\ UNCHANGED <<true_labels, pred_labels>>


(***************************************************************************)
(* Part 3: blockings/rules, composable blocking rules                      *)
(***************************************************************************)

\* number of records of the dataframe the rules are fitted to
NumRecords == 3

\* how many times the caller fits the root rule
MaxFits == 2

\* default n_chars of the FirstNChars encoder
n_chars == 3

VARIABLES
    rule_df,      \* the dataframe: column name -> column (row -> value)
    rule_tree,    \* how the rule tree was constructed (static)
    rule_level,   \* the level the AND/OR nodes were constructed with
    leaf_level,   \* the level the leaf rules were constructed with
    rule_objs,    \* the rule objects: id -> attributes
    nfits,        \* number of fit calls made on the root
    child_vals,   \* what the root's last fit obtained from its children
    out_groups,   \* root.groups as read since the last fit, None if not read
    rule_error,   \* the exception a fit raised, None if none
    rule_pc       \* "constructed", "fitted", or "read" once root.groups is read

vars_rules == <<rule_df, rule_tree, rule_level, leaf_level, rule_objs, nfits,
                child_vals, out_groups, rule_error, rule_pc>>

Rows == 0 .. (NumRecords - 1)

\* A string is the sequence of its whitespace-separated words, a word a
\* sequence of letters (a = 1, ..., z = 26, A = 27, ..., Z = 52); a missing
\* value is NaN.
NaN == << <<0>> >>

StrAbc == << <<27, 2, 3>> >>

Strabc == << <<1, 2, 3>> >>

StrAB_CD == << <<1, 2>>, <<3, 4>> >>

StrB == << <<2>> >>

\* a column name: the attribute, wrapped `enc` times as "__<name>_<encoder>__"
ColName(attr, enc) == [attr |-> attr, enc |-> enc]

\* an element of rule.rules: a column name or a rule object
Col(attr) == [tag |-> "col", name |-> ColName(attr, 0)]

Obj(id) == [tag |-> "obj", id |-> id]

\* lexicographic order on sequences of integers
RECURSIVE LexLess(_, _)
LexLess(u, v) ==
    IF v = << >> THEN FALSE
    ELSE IF u = << >> THEN TRUE
    ELSE IF Head(u) # Head(v) THEN Head(u) < Head(v)
    ELSE LexLess(Tail(u), Tail(v))

\* sorted(words)
RECURSIVE SortWords(_)
SortWords(ws) ==
    IF ws = << >> THEN << >>
    ELSE LET S == Range(ws)
             m == CHOOSE w \in S : \A x \in S : x = w \/ LexLess(w, x)
             k == CHOOSE i \in DOMAIN ws : ws[i] = m
         IN  <<m>> \o SortWords([i \in 1 .. (Len(ws) - 1) |->
                                    IF i < k THEN ws[i] ELSE ws[i + 1]])

\* "".join(words)
RECURSIVE Join(_)
Join(ws) == IF ws = << >> THEN << >> ELSE Head(ws) \o Join(Tail(ws))

\* value.lower()
Lower(value) ==
    [k \in DOMAIN value |->
        [c \in DOMAIN value[k] |-> IF value[k][c] > 26 THEN value[k][c] - 26
                                                        ELSE value[k][c]]]

\* string_encoders.py:38-41, FirstNChars._encode
FirstNChars(value) ==
    LET values == Lower(value)
        prefixes == [k \in DOMAIN values |->
                        SubSeq(values[k], 1, Min({n_chars, Len(values[k])}))]
        joined == Join(SortWords(prefixes))
    IN  IF joined = << >> THEN << >> ELSE <<joined>>

\* a variant that leaves out line 95: every NaN keeps one shared code
FactorizeSharedNaN(col) ==
    LET first(i) == Min({j \in DOMAIN col : col[j] = col[i]})
        present == {j \in DOMAIN col : col[j] # NaN}
    IN  Tabulated([i \in DOMAIN col |->
            IF col[i] = NaN
            THEN Cardinality(DOMAIN col)
            ELSE Cardinality({first(j) : j \in {x \in present : first(x) < first(i)}})])

\* blocking_rule_base.py:90-96, make_groups on a column name: pd.factorize
\* codes in order of first appearance, each NaN a code of its own from N on
Factorize(col) ==
    LET first(i) == Min({j \in DOMAIN col : col[j] = col[i]})
        present == {j \in DOMAIN col : col[j] # NaN}
    IN  Tabulated([i \in DOMAIN col |->
            IF col[i] = NaN
            THEN Cardinality(DOMAIN col)
                 + Cardinality({j \in DOMAIN col : j < i /\ col[j] = NaN})
            ELSE Cardinality({first(j) : j \in {x \in present : first(x) < first(i)}})])

\* a variant that keys the rows by the first child only
GroupsFromVectorsFirstOnly(vecs) ==
    Tabulated([i \in Rows |->
        Cardinality({vecs[1][j] : j \in {x \in Rows : vecs[1][x] < vecs[1][i]}})])

\* blocking_rule_base.py:116-117, np.unique(arr, axis=0, return_inverse=True)[1]
\* on the rows of the transposed label vectors: the rank of each row
GroupsFromVectors(vecs) ==
    LET row(i) == [k \in DOMAIN vecs |-> vecs[k][i]]
    IN  Tabulated([i \in Rows |->
            Cardinality({row(j) : j \in {x \in Rows : LexLess(row(x), row(i))}})])

\* A graph on the N records is the set of its edges, an edge a set of two
\* records
AllEdges == {e \in SUBSET Rows : Cardinality(e) = 2}

\* blocking_rule_base.py:120-126, graph_from_groups: a clique per group
GraphFromGroups(groups) ==
    Enumerated({e \in AllEdges : \A a, b \in e : groups[a] = groups[b]})

\* blocking_rule_base.py:109-112, the path graph of a label vector: the
\* members of a group, in row order, linked each to the next
PathGraph(groups) ==
    Enumerated({e \in AllEdges :
        /\ \A a, b \in e : groups[a] = groups[b]
        /\ \A m \in Rows : (Min(e) < m /\ m < Max(e)) => groups[m] # groups[Min(e)]})

\* ig.intersection(graphs): the edges present in every graph
GraphIntersection(graphs) ==
    Enumerated({e \in AllEdges : \A k \in DOMAIN graphs : e \in graphs[k]})

\* ig.union(graphs): the edges present in some graph
GraphUnion(graphs) ==
    Enumerated({e \in AllEdges : \E k \in DOMAIN graphs : e \in graphs[k]})

\* graph.clusters().membership: the connected components, numbered in the
\* order of their lowest vertex
Membership(graph) ==
    LET low(i) == Min(Component(graph, i))
    IN  Tabulated([i \in Rows |->
            Cardinality({low(j) : j \in {x \in Rows : low(x) < low(i)}})])

(* The rule objects.  rule_tree gives, for each object id, how it was      *)
(* constructed: kind "AND" stands for BlockingRuleBase, ExactGroupBy and   *)
(* GroupByLogicalAND, whose fits are the same code, kind "OR" for          *)
(* GroupByLogicalOR, kind "CC" for GroupByConnectedComponents; a leaf is an *)
(* ExactGroupBy over column names, with or without an encoder.  lvl tells  *)
(* which level the object is constructed                                   *)
(* with: "leaf" the level given to the leaves, "node" the level given to   *)
(* the nodes, "groups" the default of __init__.                            *)

Leaf(attrs, encoder) ==
    [kind |-> "AND", rules |-> [k \in DOMAIN attrs |-> Col(attrs[k])],
     encoder |-> encoder, leaf |-> TRUE, lvl |-> "leaf"]

Node(kind, ids) ==
    [kind |-> kind, rules |-> [k \in DOMAIN ids |-> Obj(ids[k])],
     encoder |-> FALSE, leaf |-> FALSE, lvl |-> "node"]

\* group_by_connected_components.py:12-21, GroupByConnectedComponents(rule)
ConnectedComponents(id) ==
    [kind |-> "CC", rules |-> <<Obj(id)>>, encoder |-> FALSE, leaf |-> FALSE,
     lvl |-> "node"]

\* blocking_rule_base.py:27-35 and group_by_exact_rules.py:27-29, __init__
NewRule(desc, level) ==
    [kind |-> desc.kind,
     rules |-> desc.rules,
     encoder |-> desc.encoder,
     level |-> level,
     groups |-> None,
     graph |-> None,
     update_graph |-> FALSE,
     update_groups |-> FALSE]

\* the objects of a tree right after construction
NewObjs(tree, level, llevel) ==
    [id \in DOMAIN tree.nodes |->
        NewRule(tree.nodes[id], IF tree.nodes[id].lvl = "leaf" THEN llevel
                                ELSE IF tree.nodes[id].lvl = "node" THEN level
                                ELSE "groups")]

AttributeError == "AttributeError"

\* the state the fit of a rule reads and writes: the dataframe, the objects,
\* the exception raised, if any, and the list the last completed fit built
\* from its children
RuleState(df, objs, error) ==
    [df |-> df, objs |-> objs, error |-> error, vals |-> << >>]

\* group_by_exact_rules.py:32-34, one turn of the encoder loop: the column
\* "__<rule>_<encoder>__" is added to the dataframe and its name collected
EncodeRule(id, st, k) ==
    LET rule == st.objs[id].rules[k].name
        rule_name == ColName(rule.attr, rule.enc + 1)
    IN  [st EXCEPT
            !.df = Tabulated([c \in DOMAIN st.df \cup {rule_name} |->
                       IF c = rule_name
                       THEN Tabulated([i \in Rows |-> FirstNChars(st.df[rule][i])])
                       ELSE st.df[c]]),
            !.objs[id].rules[k] = [tag |-> "col", name |-> rule_name]]

\* group_by_exact_rules.py:28-35, the encoder branch of ExactGroupBy.fit:
\* every rule of the leaf is encoded and self.rules is replaced by the names
\* of the encoded columns
RECURSIVE EncodeRules(_, _, _)
EncodeRules(id, st, k) ==
    IF k > Len(st.objs[id].rules) THEN st
    ELSE Only({EncodeRules(id, st2, k + 1) : st2 \in {EncodeRule(id, st, k)}})

\* blocking_rule_base.py:57-62, the groups property
GroupsProperty(id, st) ==
    IF st.objs[id].update_groups
    THEN Only({[st |-> [st EXCEPT !.objs[id].groups = groups,
                                  !.objs[id].update_groups = FALSE],
                val |-> groups] : groups \in {Membership(st.objs[id].graph)}})
    ELSE [st |-> st, val |-> st.objs[id].groups]

\* a variant that rebuilds the graph without clearing _update_graph
GraphPropertyKeepsFlag(id, st) ==
    IF st.objs[id].update_graph
    THEN Only({[st |-> [st EXCEPT !.objs[id].graph = graph],
                val |-> graph] : graph \in {GraphFromGroups(st.objs[id].groups)}})
    ELSE [st |-> st, val |-> st.objs[id].graph]

\* blocking_rule_base.py:50-55, the graph property
GraphProperty(id, st) ==
    IF st.objs[id].update_graph
    THEN Only({[st |-> [st EXCEPT !.objs[id].graph = graph,
                                  !.objs[id].update_graph = FALSE],
                val |-> graph] : graph \in {GraphFromGroups(st.objs[id].groups)}})
    ELSE [st |-> st, val |-> st.objs[id].graph]

RECURSIVE Fit(_, _)
RECURSIVE ChildValues(_, _, _, _, _)

\* the property of a fitted child that `method` reads, appended to acc
ReadChild(method, id, st, acc) ==
    IF st.error # None THEN [st |-> st, vals |-> acc]
    ELSE Only({[st |-> r.st, vals |-> Append(acc, r.val)] :
                  r \in {IF method = "get_graph" THEN GraphProperty(id, st)
                                                 ELSE GroupsProperty(id, st)}})

\* <method>(rule, df) for one child:
\*   make_groups (blocking_rule_base.py:89-98): a column name is factorized,
\*       a rule object fitted and its groups read;
\*   get_path_graph (blocking_rule_base.py:108): the rule object is fitted
\*       and its groups read, a column name has no such method;
\*   get_graph (blocking_rule_base.py:68-69): the rule object is fitted and
\*       its graph read, a column name has no such method.
\* The value appended is the label vector or the graph read from the child.
\* GroupByConnectedComponents.fit returns None, which has neither property.
ChildValue(method, rule, st, acc) ==
    IF rule.tag = "col"
    THEN IF method = "make_groups"
         THEN [st |-> st, vals |-> Append(acc, Factorize(st.df[rule.name]))]
         ELSE [st |-> [st EXCEPT !.error = AttributeError], vals |-> acc]
    ELSE Only({IF f.error = None /\ f.objs[rule.id].kind = "CC"
               THEN [st |-> [f EXCEPT !.error = AttributeError], vals |-> acc]
               ELSE ReadChild(method, rule.id, f, acc) :
                  f \in {Fit(rule.id, st)}})

\* [<method>(rule, df) for rule in rules]: the children taken in turn, until
\* one raises
ChildValues(method, rules, k, st, acc) ==
    IF k > Len(rules) \/ st.error # None THEN [st |-> st, vals |-> acc]
    ELSE Only({ChildValues(method, rules, k + 1, c.st, c.vals) :
                  c \in {ChildValue(method, rules[k], st, acc)}})

\* what the fit of rule `id` obtains from its children, after the encoder
\* branch of a leaf
Children(id, st) ==
    LET method == IF st.objs[id].level # "groups" THEN "get_graph"
                  ELSE IF st.objs[id].kind = "OR" THEN "get_path_graph"
                  ELSE "make_groups"
    IN  Only({ChildValues(method, st1.objs[id].rules, 1, st1, << >>) :
                 st1 \in {IF st.objs[id].encoder THEN EncodeRules(id, st, 1) ELSE st}})

\* group_by_logical_operations.py:32-39, GroupByLogicalOR.fit, given what
\* its children returned
FitOrFrom(id, c) ==
    IF c.st.error # None THEN c.st
    ELSE [c.st EXCEPT
             !.objs[id].graph =
                 IF c.st.objs[id].level = "groups"
                 THEN GraphUnion(Tabulated([k \in DOMAIN c.vals |-> PathGraph(c.vals[k])]))
                 ELSE GraphUnion(c.vals),
             !.objs[id].update_groups = TRUE,
             !.vals = c.vals]

\* blocking_rule_base.py:37-48, group_by_logical_operations.py:17-24 and
\* group_by_exact_rules.py:27-41: the fit of BlockingRuleBase,
\* GroupByLogicalAND and ExactGroupBy, given what its children returned
FitAndFrom(id, c) ==
    IF c.st.objs[id].level = "groups"
    THEN IF c.st.error # None
         THEN [c.st EXCEPT !.objs[id].update_graph = TRUE]
         ELSE [c.st EXCEPT !.objs[id].update_graph = TRUE,
                           !.objs[id].groups = GroupsFromVectors(c.vals),
                           !.vals = c.vals]
    ELSE IF c.st.error # None
         THEN [c.st EXCEPT !.objs[id].update_groups = TRUE]
         ELSE [c.st EXCEPT !.objs[id].update_groups = TRUE,
                           !.objs[id].graph = GraphIntersection(c.vals),
                           !.vals = c.vals]

\* group_by_connected_components.py:23-25, GroupByConnectedComponents.fit:
\* self.rule is fitted and the membership of its graph stored; a column
\* name has no fit, and the None a GroupByConnectedComponents returns from
\* its fit has no graph
FitConnectedComponents(id, st) ==
    LET rule == st.objs[id].rules[1]
    IN  IF rule.tag = "col" THEN [st EXCEPT !.error = AttributeError]
        ELSE Only({IF f.error # None THEN f
                   ELSE IF f.objs[rule.id].kind = "CC"
                        THEN [f EXCEPT !.error = AttributeError]
                   ELSE Only({[g.st EXCEPT !.objs[id].groups = Membership(g.val),
                                           !.objs[id].update_graph = TRUE,
                                           !.vals = <<g.val>>] :
                                 g \in {GraphProperty(rule.id, f)}}) :
                      f \in {Fit(rule.id, st)}})

\* rule.fit(df)
Fit(id, st) ==
    IF st.objs[id].kind = "CC" THEN FitConnectedComponents(id, st)
    ELSE Only({IF st.objs[id].kind = "OR" THEN FitOrFrom(id, c) ELSE FitAndFrom(id, c) :
                  c \in {Children(id, st)}})

\* The AND/OR trees fitted: r, s and t are ExactGroupBy leaves over the
\* columns c1, c2 and c3, r with or without a FirstNChars encoder in the
\* trees of one or two leaves; where r occurs twice it is the same object.
Tree(nodes) == [nodes |-> nodes, root |-> Len(nodes)]

Trees(enc) ==
    LET r == Leaf(<<"c1">>, enc)
        r0 == Leaf(<<"c1">>, FALSE)
        s == Leaf(<<"c2">>, FALSE)
        t == Leaf(<<"c3">>, FALSE)
    IN  { Tree(<<r>>),
          Tree(<<Leaf(<<"c1", "c2">>, FALSE)>>),
          Tree(<<r, Node("AND", <<1, 1>>)>>),
          Tree(<<r, Node("OR", <<1, 1>>)>>),
          Tree(<<r, s, Node("AND", <<1, 2>>)>>),
          Tree(<<r, s, Node("OR", <<1, 2>>)>>),
          Tree(<<r, s, Node("OR", <<1, 2>>), Node("AND", <<1, 3>>)>>),
          Tree(<<r0, s, t, Node("AND", <<1, 2, 3>>)>>),
          Tree(<<r0, s, t, Node("OR", <<1, 2, 3>>)>>),
          Tree(<<r0, s, t, Node("OR", <<1, 2>>), Node("AND", <<4, 3>>)>>),
          Tree(<<r0, s, t, Node("AND", <<1, 2>>), Node("OR", <<4, 3>>)>>) }

\* itertools.combinations(seq, r): the sub-sequences of length r, in
\* lexicographic order of their positions
RECURSIVE combinations(_, _)
combinations(seq, r) ==
    IF r = 0 THEN << << >> >>
    ELSE IF Len(seq) < r THEN << >>
    ELSE LET with == combinations(Tail(seq), r - 1)
         IN  [c \in DOMAIN with |-> <<Head(seq)>> \o with[c]]
             \o combinations(Tail(seq), r)

\* group_by_logical_operations.py:42-48, GroupByCombinationsExceptK.__init__:
\* one ExactGroupBy(*x, level=level) per combination x of len(rules) - k of
\* the rules, and over them a GroupByLogicalOR constructed without a level.
\* `base` holds the rule objects among `rules`, which are column names or
\* objects of base.
GroupByCombinationsExceptK(base, rules, k) ==
    LET xs == combinations(rules, Len(rules) - k)
        exact == [c \in DOMAIN xs |->
                     [kind |-> "AND", rules |-> xs[c], encoder |-> FALSE,
                      leaf |-> \A j \in DOMAIN xs[c] : xs[c][j].tag = "col",
                      lvl |-> "node"]]
        or == [kind |-> "OR", rules |-> [c \in DOMAIN xs |-> Obj(Len(base) + c)],
               encoder |-> FALSE, leaf |-> FALSE, lvl |-> "groups"]
    IN  Tree(base \o exact \o <<or>>)

\* GroupByCombinationsExceptK over the columns c1, c2, c3: given by name,
\* with every k from 0 to n - 1, and given as the ExactGroupBy leaves r, s,
\* t, with k = 1
ExceptKTrees ==
    LET names == <<Col("c1"), Col("c2"), Col("c3")>>
        leaves == <<Leaf(<<"c1">>, FALSE), Leaf(<<"c2">>, FALSE), Leaf(<<"c3">>, FALSE)>>
    IN  {GroupByCombinationsExceptK(<< >>, names, k) : k \in 0 .. (Len(names) - 1)}
        \cup {GroupByCombinationsExceptK(leaves, <<Obj(1), Obj(2), Obj(3)>>, 1)}

\* the columns a tree reads
Attrs(tree) ==
    UNION {{tree.nodes[id].rules[k].name.attr : k \in DOMAIN tree.nodes[id].rules} :
              id \in {x \in DOMAIN tree.nodes : tree.nodes[x].leaf}}

Root == rule_tree.root

\* The leaves are given the default level or that of the nodes; where no
\* object is constructed as a leaf the choice is not made.
\* The dataframe holds the columns the tree reads.  The labels a column
\* gets do not depend on which of its values the first row holds, so the
\* first row of c1 and c3 is fixed; c2 may miss values.
InitRules ==
    /\ \E enc \in BOOLEAN : rule_tree \in Trees(enc) \cup ExceptKTrees
    /\ rule_level \in {"groups", "graph"}
    /\ leaf_level \in {"groups", rule_level}
    /\ (\A id \in DOMAIN rule_tree.nodes : rule_tree.nodes[id].lvl # "leaf") =>
           leaf_level = "groups"
    /\ \E c1 \in {c \in [Rows -> {StrAbc, StrAB_CD}] : c[0] = StrAbc},
          c2 \in [Rows -> {StrB, NaN}],
          c3 \in {c \in [Rows -> {Strabc, StrB}] : c[0] = Strabc} :
          rule_df = [c \in {ColName(a, 0) : a \in Attrs(rule_tree)} |->
                        IF c.attr = "c1" THEN c1
                        ELSE IF c.attr = "c2" THEN c2 ELSE c3]
    /\ rule_objs = NewObjs(rule_tree, rule_level, leaf_level)
    /\ nfits = 0
    /\ child_vals = None
    /\ out_groups = None
    /\ rule_error = None
    /\ rule_pc = "constructed"

\* root.fit(df)
RulesFit ==
    /\ nfits < MaxFits
    /\ rule_error = None
    /\ \E st1 \in {Fit(Root, RuleState(rule_df, rule_objs, None))} :
           /\ rule_df' = st1.df
           /\ rule_objs' = st1.objs
           /\ rule_error' = st1.error
           /\ child_vals' = IF st1.error = None THEN st1.vals ELSE None
    /\ nfits' = nfits + 1
    /\ out_groups' = None
    /\ rule_pc' = "fitted"
    /\ UNCHANGED <<rule_tree, rule_level, leaf_level>>

\* root.groups
RulesReadGroups ==
    /\ rule_pc = "fitted"
    /\ rule_error = None
    /\ \E r \in {GroupsProperty(Root, RuleState(rule_df, rule_objs, None))} :
           /\ out_groups' = r.val
           /\ rule_objs' = r.st.objs
    /\ rule_pc' = "read"
    /\ UNCHANGED <<rule_df, rule_tree, rule_level, leaf_level, nfits, child_vals,
                   rule_error>>

(***************************************************************************)
(* Part 4: deduplicator.py, the engine: blocking, pairwise comparison,     *)
(* clustering of each block on a thread pool, clusters yielded in order    *)
(***************************************************************************)

\* largest number of input records
MaxDedupRecords == 4

\* default similarity_threshold of Deduplicator.__call__, in percent
similarity_threshold == 80

\* default eps of DBScanClusterer, in percent
eps == 50

\* default min_samples of DBScanClusterer
min_samples == 2

VARIABLES
    d_n,            \* len(records); the records are 0 .. d_n - 1
    d_blocking,     \* class of blocking_fn chosen by blocking_factory
    d_blocking_id,  \* rule.groups: the label the blocking rule gives each record
    d_scores,       \* aggregated comparator score of each record pair, percent
    d_raises,       \* the record pairs on which a comparator raises
    d_splitter,     \* blocking_splitter: [on, max_block_size, window_size,
                    \*                    step_size, key]
    d_threads,      \* num_threads argument: [given, value], and os.cpu_count()
    d_tasks,        \* the calls of _block_process submitted to the executor:
                    \* [group_id, group, pc, labels, error]
    d_labels_,      \* clusterer.clust_alg.labels_, shared by all workers
    d_cursor,       \* [task, cluster]: what the generator yields next
    d_emitted,      \* the clusters yielded so far, each its list of mentions
    d_compared,     \* the record pairs the comparators were applied to
    d_error,        \* the exception raised, None if none
    d_pc            \* "constructed", "fitted", "running", "finished", "raised"

vars_dedup == <<d_n, d_blocking, d_blocking_id, d_scores, d_raises, d_splitter,
                d_threads, d_tasks, d_labels_, d_cursor, d_emitted, d_compared, d_error, d_pc>>

Records == 0 .. (d_n - 1)

\* aggregated scores the comparators return: below and above the threshold
Scores == {0, 90}

ValueError == "ValueError"

TypeError == "TypeError"

KeyError == "KeyError"

\* whatever a comparator raises on a pair of values it cannot compare
ComparatorError == "ComparatorError"

\* An element of a block is the tuple of the record indices it holds: <<i>>
\* is record i, <<i, j>> the tuple (records[i], records[j]).

\* deduplicator.py:41-53, blocking_factory
blocking_factory(has_attributes, has_rule) ==
    IF ~has_attributes /\ ~has_rule THEN "CartesianBlocking" ELSE "RuleBasedBlocking"

\* cartesian_blocking.py:17-19, all_combinations: the tuples
\* (records[i], records[j]), i < j, in the order of itertools.combinations
RECURSIVE all_combinations(_, _, _)
all_combinations(n, i, j) ==
    IF i >= n - 1 THEN << >>
    ELSE IF j >= n THEN all_combinations(n, i + 1, i + 2)
    ELSE <<<<i, j>>>> \o all_combinations(n, i, j + 1)

\* iter_utils.py:165-185, sliding_window: a window is yielded before its
\* length is tested, so the last one yielded is short or empty
RECURSIVE sliding_window(_, _, _, _)
sliding_window(seq, start, window_size, step_size) ==
    LET window == SubSeq(seq, start + 1, Min({start + window_size, Len(seq)}))
    IN  IF Len(window) < window_size THEN <<window>>
        ELSE <<window>> \o sliding_window(seq, start + step_size, window_size, step_size)

\* sorted(block, key=...): stable, ascending in the key of the record
RECURSIVE Sorted(_, _)
Sorted(block, key) ==
    IF block = << >> THEN << >>
    ELSE LET least == Min({key[block[p][1]] : p \in DOMAIN block})
             p0 == Min({p \in DOMAIN block : key[block[p][1]] = least})
         IN  <<block[p0]>> \o
             Sorted([p \in 1 .. (Len(block) - 1) |->
                        IF p < p0 THEN block[p] ELSE block[p + 1]], key)

\* a variant that slides the window over the block as it came, unsorted
SplitterUnsorted(splitter, block_id, block) ==
    IF Len(block) <= splitter.max_block_size
    THEN <<[id |-> block_id, type |-> "list", items |-> block]>>
    ELSE LET windows == sliding_window(block, 0, splitter.window_size, splitter.step_size)
         IN  [w \in DOMAIN windows |->
                 [id |-> block_id, type |-> "tuple", items |-> windows[w]]]

\* sorted_neighbourhood_splitter.py:40-54, __call__: a block within
\* max_block_size is yielded as the list it is, a larger one as the tuples
\* sliding_window yields
Splitter(splitter, block_id, block) ==
    IF Len(block) <= splitter.max_block_size
    THEN <<[id |-> block_id, type |-> "list", items |-> block]>>
    ELSE LET windows == sliding_window(Sorted(block, splitter.key), 0,
                                       splitter.window_size, splitter.step_size)
         IN  [w \in DOMAIN windows |->
                 [id |-> block_id, type |-> "tuple", items |-> windows[w]]]

\* rule_based_blocking.py:63-70, _split_block
SplitBlock(splitter, block_id, block) ==
    IF ~splitter.on THEN <<[id |-> block_id, type |-> "DataFrame", items |-> block]>>
    ELSE Splitter(splitter, block_id, block)

\* blocking_filters is None
NoFilters == [on |-> FALSE, min_block_size |-> 0]

\* cardinality_filtering.py:14-16, CardinalityBlockingFilter.__call__, with
\* max_block_size left at its default np.inf, which no block exceeds
CardinalityBlockingFilter(filters, block) == Len(block) < filters.min_block_size

\* a variant that applies the filter whether or not one was configured
FilterBlockAlways(filters, sub_group) ==
    CardinalityBlockingFilter([filters EXCEPT !.min_block_size = 2], sub_group.items)

\* rule_based_blocking.py:57-61, _filter_block
FilterBlock(filters, sub_group) ==
    IF ~filters.on THEN FALSE
    ELSE CardinalityBlockingFilter(filters, sub_group.items)

\* a variant that yields every sub-block whatever its type
YieldsAny(sub_group) == TRUE

\* rule_based_blocking.py:79-82: a sub-block is yielded if it is a list or a
\* DataFrame
Yields(sub_group) == sub_group.type \in {"list", "DataFrame"}

\* rule_based_blocking.py:73, groupby("blocking_id"): the groups in
\* ascending order of their id, the records of a group in input order
GroupBy(n, blocking_id) ==
    LET ids == SortedSeq({blocking_id[i] : i \in 0 .. (n - 1)})
    IN  [g \in DOMAIN ids |->
            LET members == SortedSeq({i \in 0 .. (n - 1) : blocking_id[i] = ids[g]})
            IN  [id |-> ids[g], block |-> [p \in DOMAIN members |-> <<members[p]>>]]]

\* rule_based_blocking.py:72-82, iter_blocks, from group g on
RECURSIVE IterBlocksFrom(_, _, _, _)
IterBlocksFrom(groups, g, splitter, filters) ==
    IF g > Len(groups) THEN << >>
    ELSE LET subs == SelectSeq(SplitBlock(splitter, groups[g].id, groups[g].block),
                               LAMBDA s : ~FilterBlock(filters, s) /\ Yields(s))
         IN  [k \in DOMAIN subs |-> [id |-> subs[k].id, items |-> subs[k].items]]
             \o IterBlocksFrom(groups, g + 1, splitter, filters)

\* blocking_fn.iter_blocks(): the groups of records handed to _block_process
iter_blocks(blocking, n, blocking_id, splitter, filters) ==
    IF blocking = "CartesianBlocking"
    THEN <<[id |-> 0, items |-> all_combinations(n, 0, 1)]>>
    ELSE IterBlocksFrom(GroupBy(n, blocking_id), 1, splitter, filters)

\* deduplicator.py:86-87 and 108: the number of workers
NumThreads(threads, n) ==
    IF threads.given THEN threads.value
    ELSE Min({Min({threads.cpu_count \div 2, 1}), n})

\* deduplicator.py:65-66: a comparator is given a[attribute_name], which
\* a record supports and a tuple of records does not
CanCompare(group) == \A p \in DOMAIN group : Len(group[p]) = 1

\* deduplicator.py:94-99: the record pairs the comparators are applied to
ComparedPairs(group) ==
    {{group[pq[1]][1], group[pq[2]][1]} :
        pq \in {x \in (DOMAIN group) \X (DOMAIN group) : x[1] < x[2]}}

\* deduplicator.py:94-99: the candidate links of a block in the order of
\* itertools.combinations, as pairs of records
CandidateLinks(group) ==
    LET links == all_combinations(Len(group), 0, 1)
    IN  [k \in DOMAIN links |-> {group[links[k][1] + 1][1], group[links[k][2] + 1][1]}]

\* deduplicator.py:63-67 under np.fromiter: the pairs are compared in order
\* until a comparator raises; the pairs the comparators were applied to
ComparedUntilRaise(group, raises) ==
    LET links == CandidateLinks(group)
        stop == Min({k \in DOMAIN links : links[k] \in raises} \cup {Len(links)})
    IN  {links[k] : k \in 1 .. stop}

\* deduplicator.py:95-101 and dbscan_clusterer.py:28: the distance matrix,
\* 1 - similarity with similarities under the threshold set to 0, in percent
Distance(group, scores, p, q) ==
    LET sim == IF p = q THEN 100 ELSE scores[{group[p][1], group[q][1]}]
    IN  100 - (IF sim < similarity_threshold THEN 0 ELSE sim)

\* a variant that lists the positions above the diagonal column by column
triu_indices_by_column(n) ==
    LET cells == SortedSeq({c \in 0 .. (n * n - 1) : c % n < c \div n})
    IN  [k \in DOMAIN cells |-> <<cells[k] % n, cells[k] \div n>>]

\* np.triu_indices(n, 1): the positions <<i, j>> above the diagonal, row by
\* row (the cell of row i and column j is numbered i * n + j)
triu_indices(n) ==
    LET cells == SortedSeq({c \in 0 .. (n * n - 1) : c \div n < c % n})
    IN  [k \in DOMAIN cells |-> <<cells[k] \div n, cells[k] % n>>]

\* deduplicator.py:92-101: the matrix handed to the clusterer, in percent,
\* as a function of the positions <<p, q>> of the block counted from 1.
\* np.eye(n) is filled, at the k-th position of triu_indices and at its
\* mirror image, with the k-th score of compute_pairwise over the candidate
\* links; every entry under the threshold is then set to 0.
sim_matrix(group, scores, threshold) ==
    Only({Tabulated(
              [pq \in (DOMAIN group) \X (DOMAIN group) |->
                  LET at == {k \in DOMAIN c.ij :
                                \/ c.ij[k] = <<pq[1] - 1, pq[2] - 1>>
                                \/ c.ij[k] = <<pq[2] - 1, pq[1] - 1>>}
                      filled == IF at # {} THEN c.sim[Max(at)]
                                ELSE IF pq[1] = pq[2] THEN 100 ELSE 0
                  IN  IF filled < threshold THEN 0 ELSE filled]) :
          c \in {[ij |-> Tabulated(triu_indices(Len(group))),
                  sim |-> Tabulated(
                      [k \in DOMAIN CandidateLinks(group) |->
                          scores[CandidateLinks(group)[k]]])]}})

\* dbscan_clusterer.py:28 and DBSCAN.fit: the eps-neighbourhood of every
\* sample, itself included, in dist_matrix = 1 - similarity_matrix
Neighbourhoods(group, scores) ==
    Only({Tabulated([p \in DOMAIN group |->
                       {q \in DOMAIN group : 100 - m[<<p, q>>] <= eps}]) :
             m \in {sim_matrix(group, scores, similarity_threshold)}})

\* DBSCAN.fit: a cluster grown from the samples S: the unlabelled
\* neighbours of its core samples join it
RECURSIVE Expand(_, _, _)
Expand(nb, labs, S) ==
    Only({IF T = S THEN S ELSE Expand(nb, labs, T) :
             T \in {S \cup {v \in DOMAIN nb :
                              /\ labs[v] = -1
                              /\ \E u \in S : Cardinality(nb[u]) >= min_samples
                                              /\ v \in nb[u]}}})

\* DBSCAN.fit: the samples in order, each unlabelled core sample seeding the
\* next cluster; samples reached by none stay -1
RECURSIVE DbscanInner(_, _, _, _)
DbscanInner(nb, i, labs, label_num) ==
    IF i > Len(nb) THEN labs
    ELSE IF labs[i] # -1 \/ Cardinality(nb[i]) < min_samples
    THEN DbscanInner(nb, i + 1, labs, label_num)
    ELSE Only({DbscanInner(nb, i + 1,
                           Tabulated([p \in DOMAIN nb |->
                                         IF p \in C THEN label_num ELSE labs[p]]),
                           label_num + 1) :
                  C \in {Expand(nb, labs, {i})}})

\* dbscan_clusterer.py:11-31 up to the assignment of labels_ by DBSCAN.fit
Dbscan(group, scores) ==
    Only({DbscanInner(nb, 1, Tabulated([p \in DOMAIN nb |-> -1]), 0) :
             nb \in {Neighbourhoods(group, scores)}})

\* deduplicator.py:69-78, to_iter: one cluster per label other than -1, in
\* ascending order, with the mentions zip pairs with that label
to_iter(cluster_labels, group) ==
    LET uniq == SortedSeq({cluster_labels[p] : p \in DOMAIN cluster_labels} \ {-1})
        zipped == 1 .. Min({Len(cluster_labels), Len(group)})
    IN  [c \in DOMAIN uniq |->
            LET at == SortedSeq({p \in zipped : cluster_labels[p] = uniq[c]})
            IN  [p \in DOMAIN at |-> group[at[p]]]]

NewTask(block) ==
    [group_id |-> block.id, group |-> block.items, pc |-> "queued", labels |-> << >>,
     error |-> None]

\* the sorting keys tried: the records already in order, and in reverse
SortKeys(n) == {[i \in 0 .. (n - 1) |-> 0], [i \in 0 .. (n - 1) |-> n - i]}

\* the splitters tried: none, and SortedNeighbourhoodBlockSplitter with
\* sizes small enough for blocks of a few records to be split
Splitters(n) ==
    {[on |-> FALSE, max_block_size |-> 0, window_size |-> 0, step_size |-> 0,
      key |-> [i \in 0 .. (n - 1) |-> 0]]}
    \cup {[on |-> TRUE, max_block_size |-> m, window_size |-> 2, step_size |-> 1,
           key |-> k] : m \in {1, 2}, k \in SortKeys(n)}

\* the labels a blocking rule may give n records, each group numbered by
\* its first record
BlockingIds(n) ==
    {f \in [0 .. (n - 1) -> 0 .. (n - 1)] :
        \A i \in 0 .. (n - 1) :
            f[i] <= Cardinality({f[j] : j \in 0 .. (i - 1)})}

Threads ==
    {[given |-> TRUE, value |-> v, cpu_count |-> 4] : v \in {1, 2}}
    \cup {[given |-> FALSE, value |-> 0, cpu_count |-> c] : c \in {1, 4}}

\* The records of two different blocks are never compared, so their score
\* is left at 0 and no comparator is made to raise on them.
InitDedup ==
    /\ d_n \in 0 .. MaxDedupRecords
    /\ \E has_attributes, has_rule \in BOOLEAN :
           d_blocking = blocking_factory(has_attributes, has_rule)
    /\ d_blocking_id \in BlockingIds(d_n)
    /\ d_blocking = "CartesianBlocking" => \A i \in Records : d_blocking_id[i] = 0
    /\ d_scores \in [{e \in SUBSET Records : Cardinality(e) = 2} -> Scores]
    /\ \A e \in DOMAIN d_scores :
           (\E i, j \in e : d_blocking_id[i] # d_blocking_id[j]) => d_scores[e] = 0
    /\ d_raises \in {{}} \cup {{e} : e \in {x \in DOMAIN d_scores :
                                     \A i, j \in x : d_blocking_id[i] = d_blocking_id[j]}}
    /\ d_splitter \in Splitters(d_n)
    /\ d_blocking = "CartesianBlocking" => ~d_splitter.on /\ d_raises = {}
    /\ d_threads \in Threads
    /\ d_tasks = << >>
    /\ d_labels_ = << >>
    /\ d_cursor = [task |-> 1, cluster |-> 1]
    /\ d_emitted = << >>
    /\ d_compared = {}
    /\ d_error = None
    /\ d_pc = "constructed"

\* deduplicator.py:84, blocking_fn.fit(records): rule_based_blocking.py:37-55
\* refuses an empty input, cartesian_blocking.py:13-15 keeps the records
DedupFit ==
    /\ d_pc = "constructed"
    /\ IF d_blocking = "RuleBasedBlocking" /\ d_n = 0
       THEN d_pc' = "raised" /\ d_error' = ValueError
       ELSE d_pc' = "fitted" /\ d_error' = d_error
    /\ UNCHANGED <<d_n, d_blocking, d_blocking_id, d_scores, d_raises, d_splitter, d_threads,
                   d_tasks, d_labels_, d_cursor, d_emitted, d_compared>>

\* deduplicator.py:86-87 and 108-110: the executor is created, which
\* refuses max_workers = 0, iter_blocks is run to its end by zip(*...), and
\* executor.map submits one call of _block_process per block;
\* blocking_factory has passed no blocking_filters
DedupSubmit ==
    /\ d_pc = "fitted"
    /\ IF NumThreads(d_threads, d_n) <= 0
       THEN d_pc' = "raised" /\ d_error' = ValueError /\ d_tasks' = d_tasks
       ELSE /\ d_pc' = "running"
            /\ d_error' = d_error
            /\ \E blocks \in {iter_blocks(d_blocking, d_n, d_blocking_id, d_splitter,
                                              NoFilters)} :
                   d_tasks' = [k \in DOMAIN blocks |-> NewTask(blocks[k])]
    /\ UNCHANGED <<d_n, d_blocking, d_blocking_id, d_scores, d_raises, d_splitter, d_threads,
                   d_labels_, d_cursor, d_emitted, d_compared>>

\* deduplicator.py:89-103, a worker takes the next queued call of
\* _block_process and runs it up to the end of DBSCAN.fit, which stores its
\* result in the labels_ of the one clusterer
WorkerProcess ==
    /\ d_pc = "running"
    /\ Cardinality({k \in DOMAIN d_tasks : d_tasks[k].pc = "fitted"})
           < NumThreads(d_threads, d_n)
    /\ \E k \in DOMAIN d_tasks :
        /\ d_tasks[k].pc = "queued"
        /\ \A j \in 1 .. (k - 1) : d_tasks[j].pc # "queued"
        /\ \E group \in {d_tasks[k].group} :
            IF group = << >>
            THEN /\ d_tasks' = [d_tasks EXCEPT ![k].pc = "done"]
                 /\ UNCHANGED <<d_labels_, d_compared>>
            ELSE IF Len(group) > 1 /\ ~CanCompare(group)
            THEN /\ d_tasks' = [d_tasks EXCEPT ![k].pc = "raised", ![k].error = TypeError]
                 /\ UNCHANGED <<d_labels_, d_compared>>
            ELSE IF ComparedPairs(group) \cap d_raises # {}
            THEN /\ d_tasks' = [d_tasks EXCEPT ![k].pc = "raised",
                                               ![k].error = ComparatorError]
                 /\ d_compared' = d_compared \cup ComparedUntilRaise(group, d_raises)
                 /\ UNCHANGED d_labels_
            ELSE IF Len(group) = 1
            THEN /\ d_tasks' = [d_tasks EXCEPT ![k].pc = "done", ![k].labels = <<0>>]
                 /\ UNCHANGED <<d_labels_, d_compared>>
            ELSE /\ d_compared' = d_compared \cup ComparedPairs(group)
                 /\ d_labels_' = Dbscan(group, d_scores)
                 /\ d_tasks' = [d_tasks EXCEPT ![k].pc = "fitted"]
    /\ UNCHANGED <<d_n, d_blocking, d_blocking_id, d_scores, d_raises, d_splitter, d_threads,
                   d_cursor, d_emitted, d_error, d_pc>>

\* DBSCAN.fit_predict returns self.labels_ after fit, and dbscan_clusterer.py
\* :29-31 makes it the labels of the block: whatever labels_ holds by then
WorkerReturn ==
    /\ d_pc = "running"
    /\ \E k \in DOMAIN d_tasks :
        /\ d_tasks[k].pc = "fitted"
        /\ d_tasks' = [d_tasks EXCEPT ![k].pc = "done", ![k].labels = d_labels_]
    /\ UNCHANGED <<d_n, d_blocking, d_blocking_id, d_scores, d_raises, d_splitter, d_threads,
                   d_labels_, d_cursor, d_emitted, d_compared, d_error, d_pc>>

\* deduplicator.py:110-112 with to_iter, 69-78: the generator yields the next
\* cluster of the current result; a result is the exception its call raised,
\* and a cluster that got no mention has no 'mentions' key
DedupYield ==
    /\ d_pc = "running"
    /\ d_cursor.task \in DOMAIN d_tasks
    /\ \E task \in {d_tasks[d_cursor.task]} :
        /\ task.pc \in {"done", "raised"}
        /\ IF task.pc = "raised"
           THEN /\ d_pc' = "raised"
                /\ d_error' = task.error
                /\ UNCHANGED <<d_cursor, d_emitted>>
           ELSE \E clusters \in {to_iter(task.labels, task.group)} :
                /\ d_cursor.cluster \in DOMAIN clusters
                /\ IF clusters[d_cursor.cluster] = << >>
                   THEN /\ d_pc' = "raised"
                        /\ d_error' = KeyError
                        /\ UNCHANGED <<d_cursor, d_emitted>>
                   ELSE /\ d_emitted' = Append(d_emitted, clusters[d_cursor.cluster])
                        /\ d_cursor' = [d_cursor EXCEPT !.cluster = @ + 1]
                        /\ UNCHANGED <<d_pc, d_error>>
    /\ UNCHANGED <<d_n, d_blocking, d_blocking_id, d_scores, d_raises, d_splitter, d_threads,
                   d_tasks, d_labels_, d_compared>>

\* deduplicator.py:110: the current result is exhausted, the next is awaited
DedupNextResult ==
    /\ d_pc = "running"
    /\ d_cursor.task \in DOMAIN d_tasks
    /\ \E task \in {d_tasks[d_cursor.task]} :
        /\ task.pc = "done"
        /\ d_cursor.cluster > Len(to_iter(task.labels, task.group))
    /\ d_cursor' = [task |-> d_cursor.task + 1, cluster |-> 1]
    /\ UNCHANGED <<d_n, d_blocking, d_blocking_id, d_scores, d_raises, d_splitter, d_threads,
                   d_tasks, d_labels_, d_emitted, d_compared, d_error, d_pc>>

\* deduplicator.py:108-112: no result is left, the generator returns
DedupFinish ==
    /\ d_pc = "running"
    /\ d_cursor.task > Len(d_tasks)
    /\ d_pc' = "finished"
    /\ UNCHANGED <<d_n, d_blocking, d_blocking_id, d_scores, d_raises, d_splitter, d_threads,
                   d_tasks, d_labels_, d_cursor, d_emitted, d_compared, d_error>>

(***************************************************************************)
(* Part 5: blockings/pruners/sorted_neighbourhood_splitter.py and          *)
(* utils/iter_utils.py, the splitter and sliding_window called on their    *)
(* own                                                                     *)
(***************************************************************************)

\* largest number of records of the block given to the splitter
MaxBlockLen == 6

\* largest window_size
MaxWindow == 4

\* largest step_size
MaxStep == 2

VARIABLES
    w_block,     \* the block: the records 0 .. n - 1 in input order
    w_block_id,  \* the block_id given with it
    w_splitter,  \* the splitter: [on, max_block_size, window_size, step_size, key]
    w_call,      \* which of the two was called: "sliding_window" or "splitter"
    w_windows,   \* list(sliding_window(block, window_size, step_size))
    w_out,       \* list(splitter(block_id, block))
    w_pc         \* "new", then "called"

vars_split == <<w_block, w_block_id, w_splitter, w_call, w_windows, w_out, w_pc>>

\* sorted_neighbourhood_splitter.py:10-35, __init__: the sizes and the
\* sorting key, which gives every record one of two values
InitSplit ==
    /\ \E n \in 0 .. MaxBlockLen :
           /\ w_block = [p \in 1 .. n |-> <<p - 1>>]
           /\ \E key \in [0 .. (n - 1) -> {0, 1}],
                 m \in {1, MaxWindow},
                 window_size \in 1 .. MaxWindow,
                 step_size \in 1 .. MaxStep :
                  w_splitter = [on |-> TRUE, max_block_size |-> m,
                                window_size |-> window_size, step_size |-> step_size,
                                key |-> key]
    /\ w_block_id \in {0, 1}
    /\ w_call = None
    /\ w_windows = << >>
    /\ w_out = << >>
    /\ w_pc = "new"

\* list(sliding_window(block, window_size, step_size))
CallSlidingWindow ==
    /\ w_pc = "new"
    /\ w_windows' = sliding_window(w_block, 0, w_splitter.window_size,
                                   w_splitter.step_size)
    /\ w_call' = "sliding_window"
    /\ w_pc' = "called"
    /\ UNCHANGED <<w_block, w_block_id, w_splitter, w_out>>

\* list(splitter(block_id, block))
CallSplitter ==
    /\ w_pc = "new"
    /\ w_out' = Splitter(w_splitter, w_block_id, w_block)
    /\ w_call' = "splitter"
    /\ w_pc' = "called"
    /\ UNCHANGED <<w_block, w_block_id, w_splitter, w_windows>>

(***************************************************************************)
(* Part 6: construction of the engine and of the blockings, fit and        *)
(* iter_blocks of a blocking on its own                                    *)
(***************************************************************************)

\* largest number of records given to fit
MaxFitRecords == 3

VARIABLES
    b_args,         \* the constructor called and its arguments
    b_n,            \* len(records) given to fit
    b_blocking_id,  \* the label rule.groups gives each record
    b_blocking_fn,  \* the blocking constructed: [class, has_data, num_blocks,
                    \*                            filters, splitter]
    b_blocks,       \* list(blocking_fn.iter_blocks())
    b_error,        \* the exception raised, None if none
    b_pc            \* "new", "constructed", "fitted", "iterated", or the
                    \* call that raised: "construction", "fit"

vars_blocking == <<b_args, b_n, b_blocking_id, b_blocking_fn, b_blocks, b_error, b_pc>>

\* no blocking object yet
NoBlocking ==
    [class |-> None, has_data |-> FALSE, num_blocks |-> 0, filters |-> NoFilters,
     splitter |-> [on |-> FALSE, max_block_size |-> 0, window_size |-> 0,
                   step_size |-> 0, key |-> << >>]]

\* deduplicator.py:31-36: the aggregation functions known by name
AggregationStrategies == {"mean", "median", "max", "min"}

\* rule_based_blocking.py:14-35, RuleBasedBlocking.__init__
NewRuleBasedBlocking(has_attributes, has_rule, filters, splitter) ==
    IF has_rule \/ has_attributes
    THEN [error |-> None,
          fn |-> [class |-> "RuleBasedBlocking", has_data |-> FALSE, num_blocks |-> 0,
                  filters |-> filters, splitter |-> splitter]]
    ELSE [error |-> ValueError, fn |-> NoBlocking]

\* cartesian_blocking.py:9-11, CartesianBlocking.__init__
NewCartesianBlocking ==
    [error |-> None, fn |-> [NoBlocking EXCEPT !.class = "CartesianBlocking"]]

\* deduplicator.py:21-53, Deduplicator.__init__ with blocking_factory: the
\* aggregation function is looked up by name, the comparators are stored as
\* given, and the blocking is constructed without blocking_filters
NewDeduplicator(args) ==
    IF args.aggregation_strategy \notin AggregationStrategies
    THEN [error |-> KeyError, fn |-> NoBlocking]
    ELSE IF blocking_factory(args.has_attributes, args.has_rule) = "CartesianBlocking"
    THEN NewCartesianBlocking
    ELSE NewRuleBasedBlocking(args.has_attributes, args.has_rule, NoFilters,
                              args.splitter)

\* the arguments tried: an engine or a RuleBasedBlocking, with a known or
\* unknown aggregation strategy, no or one comparator, with or without
\* blocking attributes, rule, filter and splitter
ConstructorArgs(n) ==
    [entry : {"Deduplicator", "RuleBasedBlocking"},
     aggregation_strategy : {"mean", "unknown"},
     comparators : {0, 1},
     has_attributes : BOOLEAN,
     has_rule : BOOLEAN,
     filters : {NoFilters, [on |-> TRUE, min_block_size |-> 2]},
     splitter : {s \in Splitters(n) : s.max_block_size <= 1 /\ s.key = [i \in 0 .. (n - 1) |-> 0]}]

InitBlocking ==
    /\ b_n \in 0 .. MaxFitRecords
    /\ b_args \in ConstructorArgs(b_n)
    /\ b_args.entry = "Deduplicator" => ~b_args.filters.on
    /\ b_args.entry = "RuleBasedBlocking" =>
           b_args.aggregation_strategy = "mean" /\ b_args.comparators = 1
    /\ b_blocking_id \in BlockingIds(b_n)
    /\ b_blocking_fn = NoBlocking
    /\ b_blocks = << >>
    /\ b_error = None
    /\ b_pc = "new"

\* Deduplicator(...) or RuleBasedBlocking(...)
Construct ==
    /\ b_pc = "new"
    /\ \E r \in {IF b_args.entry = "Deduplicator" THEN NewDeduplicator(b_args)
                  ELSE NewRuleBasedBlocking(b_args.has_attributes, b_args.has_rule,
                                            b_args.filters, b_args.splitter)} :
           /\ b_blocking_fn' = r.fn
           /\ b_error' = r.error
           /\ b_pc' = IF r.error = None THEN "constructed" ELSE "construction"
    /\ UNCHANGED <<b_args, b_n, b_blocking_id, b_blocks>>

\* blocking_fn.fit(records): rule_based_blocking.py:37-55 raises on an
\* empty list before anything is stored; cartesian_blocking.py:13-15 stores
\* the records, whatever they are
BlockingFit ==
    /\ b_pc = "constructed"
    /\ IF b_blocking_fn.class = "RuleBasedBlocking" /\ b_n = 0
       THEN /\ b_error' = ValueError
            /\ b_pc' = "fit"
            /\ UNCHANGED b_blocking_fn
       ELSE /\ b_blocking_fn' =
                   [b_blocking_fn EXCEPT
                       !.has_data = TRUE,
                       !.num_blocks =
                           IF b_blocking_fn.class = "RuleBasedBlocking"
                           THEN Cardinality({b_blocking_id[i] : i \in 0 .. (b_n - 1)})
                           ELSE 1]
            /\ b_pc' = "fitted"
            /\ UNCHANGED b_error
    /\ UNCHANGED <<b_args, b_n, b_blocking_id, b_blocks>>

\* list(blocking_fn.iter_blocks())
BlockingIterBlocks ==
    /\ b_pc = "fitted"
    /\ b_blocks' = iter_blocks(b_blocking_fn.class, b_n, b_blocking_id,
                               b_blocking_fn.splitter, b_blocking_fn.filters)
    /\ b_pc' = "iterated"
    /\ UNCHANGED <<b_args, b_n, b_blocking_id, b_blocking_fn, b_error>>

(***************************************************************************)
(* Part 7: utils/er_utils.py, clusters_to_labels                           *)
(***************************************************************************)

\* largest total_mentions given to clusters_to_labels
MaxClusterMentions == 3

\* longest list of clusters given to clusters_to_labels
MaxClusters == 3

VARIABLES
    c_clusters,   \* argument clusters: a list of clusters, each the set of its
                  \* mention ids (the keys of the cluster but CLUSTER_ID)
    c_total,      \* argument total_mentions
    c_drop,       \* argument drop_singletons
    c_labels,     \* the label list returned, None before the call or if it raised
    c_error,      \* the exception raised, or None
    c_pc          \* "init" before the call, "done" after it

vars_clusters == <<c_clusters, c_total, c_drop, c_labels, c_error, c_pc>>

\* a variant whose test lets the members of cluster 0 be labelled again
RECURSIVE LabelClustersFromFirstOverwritten(_, _, _)
LabelClustersFromFirstOverwritten(clusters, cluster_idx, labs) ==
    IF cluster_idx >= Len(clusters) THEN [error |-> None, labels |-> labs]
    ELSE IF \E node \in clusters[cluster_idx + 1] : labs[node] > 0
         THEN [error |-> ValueError, labels |-> None]
    ELSE LabelClustersFromFirstOverwritten(clusters, cluster_idx + 1,
             [l \in DOMAIN labs |->
                 IF l \in clusters[cluster_idx + 1] THEN cluster_idx ELSE labs[l]])

\* er_utils.py:135-141, the loop over the clusters from cluster_idx on
\* (cluster_idx counts from 0, the list is indexed from 1); the first member
\* already labelled raises, whichever member of the cluster it is.  The
\* result is the label list, or the exception that ended the loop.
RECURSIVE LabelClustersFrom(_, _, _)
LabelClustersFrom(clusters, cluster_idx, labs) ==
    IF cluster_idx >= Len(clusters) THEN [error |-> None, labels |-> labs]
    ELSE IF \E node \in clusters[cluster_idx + 1] : labs[node] > -1
         THEN [error |-> ValueError, labels |-> None]
    ELSE LabelClustersFrom(clusters, cluster_idx + 1,
             [l \in DOMAIN labs |->
                 IF l \in clusters[cluster_idx + 1] THEN cluster_idx ELSE labs[l]])

\* a variant that never advances cluster_idx
LabelSingletonsFromSameIdx(labs, n, node, cluster_idx) ==
    [l \in DOMAIN labs |-> IF labs[l] = -1 THEN cluster_idx ELSE labs[l]]

\* er_utils.py:145-149, the loop that gives each unlabelled mention from
\* `node` on a cluster of its own
RECURSIVE LabelSingletonsFrom(_, _, _, _)
LabelSingletonsFrom(labs, n, node, cluster_idx) ==
    IF node >= n THEN labs
    ELSE IF labs[node] = -1
         THEN LabelSingletonsFrom([labs EXCEPT ![node] = cluster_idx], n,
                                  node + 1, cluster_idx + 1)
    ELSE LabelSingletonsFrom(labs, n, node + 1, cluster_idx)

\* er_utils.py:119-151: the labels returned, or the exception raised
clusters_to_labels(clusters, n, drop) ==
    LET res == LabelClustersFrom(clusters, 0, [i \in 0 .. (n - 1) |-> -1])
    IN  IF res.error # None THEN res
        ELSE IF ~drop
             THEN [error |-> None,
                   labels |-> LabelSingletonsFrom(res.labels, n, 0, Len(clusters))]
        ELSE res

\* the lists of at most MaxClusters clusters over mentions 0..n-1, a cluster
\* having at least one member
ClusterLists(n) ==
    UNION {[1 .. len -> (SUBSET (0 .. (n - 1))) \ {{}}] : len \in 0 .. MaxClusters}

InitClusters ==
    /\ c_total \in 1 .. MaxClusterMentions
    /\ c_clusters \in ClusterLists(c_total)
    /\ c_drop \in BOOLEAN
    /\ c_labels = None
    /\ c_error = None
    /\ c_pc = "init"

\* one call of clusters_to_labels(c_clusters, c_total, c_drop)
CallClustersToLabels ==
    /\ c_pc = "init"
    /\ \E res \in {clusters_to_labels(c_clusters, c_total, c_drop)} :
          c_error' = res.error /\ c_labels' = res.labels
    /\ c_pc' = "done"
    /\ UNCHANGED <<c_clusters, c_total, c_drop>>


(***************************************************************************)
(* Part 8: utils/er_utils.py, merge_clusterizations                        *)
(***************************************************************************)

\* number of entities the two clusterizations are drawn over
MaxEntities == 3

VARIABLES
    g_clusters_1,   \* argument clusters_1: cluster id -> the entity ids that
                    \* are keys of that cluster (the properties are payload)
    g_clusters_2,   \* argument clusters_2, likewise
    g_order,        \* the order in which the set all_entity_ids was iterated
    g_merged,       \* the list returned: cluster id -> its entity ids
    g_pc            \* "init" before the call, "done" after it

vars_merge == <<g_clusters_1, g_clusters_2, g_order, g_merged, g_pc>>

Entities == 1 .. MaxEntities

\* dict.get(key): the value, or None when the key is absent.  Cluster ids
\* are positive here and None is modelled by 0, which Python's truth tests
\* (`if id_clust and sm_clust`, `a or b`) treat like None.
Get(dict, key) == IF key \in DOMAIN dict THEN dict[key] ELSE 0

\* er_utils.py:209-229, entid_to_clustid of clusters_to_indexes: later
\* clusters overwrite earlier ones; the clusters drawn here are disjoint
clusters_to_indexes(clusters) ==
    [ent_id \in UNION {clusters[c] : c \in DOMAIN clusters} |->
        CHOOSE clust_id \in DOMAIN clusters : ent_id \in clusters[clust_id]]

\* er_utils.py:247-267, the body of the first loop for one ent_id.
\* st.clust2merge_id maps a cluster id to its merge id (absent: 0),
\* st.merge_id2clust is the defaultdict(list), absent keys being << >>.
MergeEntity(st, ent_id, ent2clust_sm, ent2clust_id) ==
    LET id_clust == Get(ent2clust_id, ent_id)
        sm_clust == Get(ent2clust_sm, ent_id)
        sm_mid == st.clust2merge_id[sm_clust]
        id_mid == st.clust2merge_id[sm_clust]
        moved == IF sm_mid # 0 /\ id_mid # 0 /\ sm_mid # id_mid
                 THEN [clust2merge_id |->
                          [c \in DOMAIN st.clust2merge_id |->
                              IF c \in Range(st.merge_id2clust[sm_mid])
                              THEN id_mid ELSE st.clust2merge_id[c]],
                       merge_id2clust |->
                          [st.merge_id2clust EXCEPT
                              ![id_mid] = @ \o st.merge_id2clust[sm_mid],
                              ![sm_mid] = << >>]]
                 ELSE st
        current_id == IF sm_mid # 0 /\ id_mid # 0 /\ sm_mid = id_mid THEN sm_mid
                      ELSE IF sm_mid # 0 /\ id_mid # 0 /\ sm_mid # id_mid THEN id_mid
                      ELSE IF sm_mid # 0 \/ id_mid # 0
                           THEN (IF sm_mid # 0 THEN sm_mid ELSE id_mid)
                      ELSE id_clust
    IN  IF id_clust # 0 /\ sm_clust # 0
        THEN [clust2merge_id |->
                 [moved.clust2merge_id EXCEPT ![sm_clust] = current_id,
                                              ![id_clust] = current_id],
              merge_id2clust |->
                 [moved.merge_id2clust EXCEPT
                     ![current_id] = @ \o <<id_clust, sm_clust>>]]
        ELSE st

\* er_utils.py:247-267, the first loop over the entities in the given order
RECURSIVE MergeLoop(_, _, _, _, _)
MergeLoop(st, order, k, ent2clust_sm, ent2clust_id) ==
    IF k > Len(order) THEN st
    ELSE MergeLoop(MergeEntity(st, order[k], ent2clust_sm, ent2clust_id),
                   order, k + 1, ent2clust_sm, ent2clust_id)

\* er_utils.py:269-275, the cluster id under which ent_id is filed
FiledUnder(clust2merge_id, ent_id, ent2clust_sm, ent2clust_id) ==
    LET id_clust == Get(ent2clust_id, ent_id)
        sm_clust == Get(ent2clust_sm, ent_id)
        clust == IF id_clust # 0 THEN id_clust ELSE sm_clust
    IN  IF clust2merge_id[clust] # 0 THEN clust2merge_id[clust] ELSE clust

\* er_utils.py:232-280: the clusters returned when all_entity_ids is
\* iterated in `order`, as cluster id -> entity ids
merge_clusterizations(clusters_1, clusters_2, order) ==
    LET ent2clust_sm == Tabulated(clusters_to_indexes(clusters_1))
        ent2clust_id == Tabulated(clusters_to_indexes(clusters_2))
        ids == {0} \cup DOMAIN clusters_1 \cup DOMAIN clusters_2
        st == MergeLoop([clust2merge_id |-> [c \in ids |-> 0],
                         merge_id2clust |-> [c \in ids |-> << >>]],
                        order, 1, ent2clust_sm, ent2clust_id)
        filed == Tabulated([ent_id \in Range(order) |->
                     FiledUnder(st.clust2merge_id, ent_id, ent2clust_sm, ent2clust_id)])
    IN  [clust_id \in Range(filed) |-> {ent_id \in DOMAIN filed : filed[ent_id] = clust_id}]

\* the sets of pairwise disjoint non-empty sets of entities
Clusterings ==
    {P \in SUBSET ((SUBSET Entities) \ {{}}) :
        \A S, T \in P : S = T \/ S \cap T = {}}

\* a clustering as a list of clusters with distinct cluster ids: the cluster
\* whose least entity is m is given the id base + m
WithIds(P, base) ==
    [clust_id \in {base + Min(S) : S \in P} |->
        CHOOSE S \in P : base + Min(S) = clust_id]

\* the orders in which a set can be iterated
Orders(S) ==
    {order \in [1 .. Cardinality(S) -> S] :
        \A i, j \in 1 .. Cardinality(S) : order[i] = order[j] => i = j}

InitMerge ==
    /\ g_clusters_1 \in {WithIds(P, 0) : P \in Clusterings}
    /\ g_clusters_2 \in {WithIds(P, MaxEntities) : P \in Clusterings}
    /\ g_order = << >>
    /\ g_merged = << >>
    /\ g_pc = "init"

\* one call of merge_clusterizations(g_clusters_1, g_clusters_2); the
\* iteration order of the set all_entity_ids is the interpreter's choice
CallMergeClusterizations ==
    /\ g_pc = "init"
    /\ \E order \in Orders(UNION (Range(g_clusters_1) \cup Range(g_clusters_2))) :
          /\ g_order' = order
          /\ g_merged' = merge_clusterizations(g_clusters_1, g_clusters_2, order)
    /\ g_pc' = "done"
    /\ UNCHANGED <<g_clusters_1, g_clusters_2>>


(***************************************************************************)
(* Part 9: metrics/functional.py, reduction_ratio, precision and recall.   *)
(* A float result is kept as the exact fraction num/den it stands for.     *)
(***************************************************************************)

\* largest length of the label lists given to precision and recall
MaxScoreLen == 3

\* largest cluster id in the label lists given to precision and recall
MaxScoreLabel == 2

VARIABLES
    q_given,       \* which counts the caller's block_stats carry; the others
                   \* are None
    q_before,      \* operations_before_blocking: a count c as {c}, None as {}
    q_after,       \* operations_after_blocking, likewise
    q_ratio,       \* result of reduction_ratio
    q_pc,          \* position in the reduction_ratio scenario
    p_true,        \* argument true_labels of precision and recall
    p_pred,        \* argument pred_labels of precision and recall
    p_precision,   \* result of precision(true_labels, pred_labels)
    p_recall,      \* result of recall(true_labels, pred_labels)
    p_pc           \* the calls made so far: a subset of {"precision", "recall"}

vars_scores == <<q_given, q_before, q_after, q_ratio, q_pc,
                 p_true, p_pred, p_precision, p_recall, p_pc>>

\* the number num/den
Fraction(num, den) == [num |-> num, den |-> den]

\* functional.py:14-19
max_possible_comparison(n_records) == (n_records * (n_records - 1)) \div 2

\* the comparisons made on the emitted blocks, C(|B|, 2) for each block B
RECURSIVE OperationsAfterBlocking(_)
OperationsAfterBlocking(blocks) ==
    IF blocks = << >> THEN 0
    ELSE Comb2(Len(Head(blocks).items)) + OperationsAfterBlocking(Tail(blocks))

\* functional.py:22-38; (1 - after / before) * 100 is 100 (before - after) / before
reduction_ratio(operations_before_blocking, operations_after_blocking) ==
    IF operations_after_blocking = {} \/ operations_before_blocking = {}
    THEN Fraction(0, 1)
    ELSE LET before == Only(operations_before_blocking)
             after == Only(operations_after_blocking)
         IN  IF before = 0 THEN Fraction(0, 1)
             ELSE Fraction((before - after) * 100, before)

\* a variant that scores 0 when no two records share a predicted label
precision_zero_without_pairs(t_labels, p_labels) ==
    LET tp == PairsInCells(t_labels, p_labels)
        p  == SumComb2OfCounts(p_labels)
    IN  IF p = 0 THEN Fraction(0, 1) ELSE Fraction(100 * tp, p)

\* functional.py:63-75
precision(t_labels, p_labels) ==
    LET tp == PairsInCells(t_labels, p_labels)
        p  == SumComb2OfCounts(p_labels)
    IN  IF p = 0 THEN Fraction(100, 1) ELSE Fraction(100 * tp, p)

\* functional.py:78-84: precision(true_labels=pred_labels, pred_labels=true_labels)
recall(t_labels, p_labels) == precision(p_labels, t_labels)

IdleRatio ==
    /\ q_given = {}
    /\ q_before = {}
    /\ q_after = {}
    /\ q_ratio = None
    /\ q_pc = "idle"

IdlePrecision ==
    /\ p_true = << >>
    /\ p_pred = << >>
    /\ p_precision = None
    /\ p_recall = None
    /\ p_pc = {"idle"}

InitRatio ==
    /\ q_given \in SUBSET {"before", "after"}
    /\ q_before = {}
    /\ q_after = {}
    /\ q_ratio = None
    /\ q_pc = "new"
    /\ IdlePrecision

\* the counts of block_stats taken on the blocks the splitter emitted for
\* the one block of the input
CountOperations ==
    /\ q_pc = "new"
    /\ w_pc = "called"
    /\ w_call = "splitter"
    /\ q_before' = IF "before" \in q_given
                   THEN {max_possible_comparison(Len(w_block))} ELSE {}
    /\ q_after' = IF "after" \in q_given
                  THEN {OperationsAfterBlocking(w_out)} ELSE {}
    /\ q_pc' = "counted"
    /\ UNCHANGED <<q_given, q_ratio, p_true, p_pred, p_precision, p_recall, p_pc>>

\* report.py:117-122: reduction_ratio called on the counts of block_stats
CallReductionRatio ==
    /\ q_pc = "counted"
    /\ q_ratio' = reduction_ratio(q_before, q_after)
    /\ q_pc' = "done"
    /\ UNCHANGED <<q_given, q_before, q_after, p_true, p_pred, p_precision,
                   p_recall, p_pc>>

InitPrecision ==
    /\ \E n \in 1 .. MaxScoreLen :
          /\ p_true \in [0 .. (n - 1) -> 0 .. MaxScoreLabel]
          /\ p_pred \in [0 .. (n - 1) -> 0 .. MaxScoreLabel]
    /\ p_precision = None
    /\ p_recall = None
    /\ p_pc = {}
    /\ IdleRatio

\* precision(true_labels=p_true, pred_labels=p_pred)
CallPrecision ==
    /\ "precision" \notin p_pc
    /\ "idle" \notin p_pc
    /\ p_precision' = precision(p_true, p_pred)
    /\ p_pc' = p_pc \cup {"precision"}
    /\ UNCHANGED <<p_true, p_pred, p_recall, q_given, q_before, q_after, q_ratio, q_pc>>

\* recall(true_labels=p_true, pred_labels=p_pred)
CallRecall ==
    /\ "recall" \notin p_pc
    /\ "idle" \notin p_pc
    /\ p_recall' = recall(p_true, p_pred)
    /\ p_pc' = p_pc \cup {"recall"}
    /\ UNCHANGED <<p_true, p_pred, p_precision, q_given, q_before, q_after, q_ratio, q_pc>>


(***************************************************************************)
(* Part 10: deduplicator.py, the similarity matrix of one block            *)
(***************************************************************************)

\* largest block a similarity matrix is built for
MaxMatrixLen == 4

VARIABLES
    x_group,       \* group_records: the records of the block, in its order
    x_scores,      \* aggregated comparator score of each record pair, percent
    x_threshold,   \* similarity_threshold, percent
    x_matrix,      \* sim_matrix as it is handed to the clusterer
    x_pc           \* "block" before the matrix is built, "built" after

vars_matrix == <<x_group, x_scores, x_threshold, x_matrix, x_pc>>

\* the scores drawn: one under the thresholds drawn and one that reaches
\* them
MatrixScores == {50, 90}

\* the thresholds drawn: the default, and one equal to a score
MatrixThresholds == {similarity_threshold, 90}

InitMatrix ==
    /\ \E n \in 2 .. MaxMatrixLen :
          /\ x_group \in {[p \in 1 .. n |-> <<p - 1>>], [p \in 1 .. n |-> <<n - p>>]}
          /\ x_scores \in [{e \in SUBSET (0 .. (n - 1)) : Cardinality(e) = 2} -> MatrixScores]
    /\ x_threshold \in MatrixThresholds
    /\ x_matrix = << >>
    /\ x_pc = "block"

\* deduplicator.py:89-101, _block_process up to the call of the clusterer
BuildSimMatrix ==
    /\ x_pc = "block"
    /\ x_matrix' = sim_matrix(x_group, x_scores, x_threshold)
    /\ x_pc' = "built"
    /\ UNCHANGED <<x_group, x_scores, x_threshold>>


(***************************************************************************)
(* Part 11: blockings/rules, a rule fitted again and again, on changing    *)
(* data, with its graph and groups properties read in between              *)
(***************************************************************************)

VARIABLES
    y_groups,   \* the values root.groups has returned since the last fit
    y_graph,    \* the values root.graph has returned since the last fit
    y_access    \* the last access: [prop, repeated, rebuilt]: the property
                \* read, whether it had been read since the last fit, and
                \* whether the access rebuilt the value

vars_cache == <<y_groups, y_graph, y_access>>

NoAccess == [prop |-> None, repeated |-> FALSE, rebuilt |-> FALSE]

\* The rules fitted: the ExactGroupBy leaves r, over c1 with a FirstNChars
\* encoder, and s, over c2, alone and under GroupByLogicalAND,
\* GroupByLogicalOR and GroupByConnectedComponents
CacheTrees ==
    LET r == Leaf(<<"c1">>, TRUE)
        s == Leaf(<<"c2">>, FALSE)
    IN  { Tree(<<r>>),
          Tree(<<r, s, Node("AND", <<1, 2>>)>>),
          Tree(<<r, s, Node("OR", <<1, 2>>)>>),
          Tree(<<r, s, Node("OR", <<1, 2>>), ConnectedComponents(3)>>),
          Tree(<<r, s, Node("AND", <<1, 2>>), ConnectedComponents(3)>>),
          Tree(<<s, ConnectedComponents(1), ConnectedComponents(2)>>) }

\* the contents column c1 may have: one value throughout, or a second value
\* in row 1 that the encoder tells apart once and no longer when applied to
\* its own output
CacheC1 ==
    {[i \in Rows |-> StrAbc], [i \in Rows |-> IF i = 1 THEN StrAB_CD ELSE StrAbc]}

\* the contents column c2 may have at a fit: one value throughout, or
\* missing values below row 0
CacheC2 ==
    {[i \in Rows |-> StrB], [i \in Rows |-> IF i = 0 THEN StrB ELSE NaN]}

InitCache ==
    /\ rule_tree \in CacheTrees
    /\ rule_level \in {"groups", "graph"}
    /\ leaf_level \in {"groups", rule_level}
    /\ \E c1 \in CacheC1 :
          rule_df = [c \in {ColName(a, 0) : a \in Attrs(rule_tree)} |->
                        IF c.attr = "c1" THEN c1 ELSE [i \in Rows |-> StrB]]
    /\ rule_objs = NewObjs(rule_tree, rule_level, leaf_level)
    /\ nfits = 0
    /\ child_vals = None
    /\ out_groups = None
    /\ rule_error = None
    /\ rule_pc = "constructed"
    /\ y_groups = {}
    /\ y_graph = {}
    /\ y_access = NoAccess

\* root.fit(df), the dataframe holding the columns the earlier fits left in
\* it and, in column c2, the contents chosen for this fit
CacheFit ==
    /\ nfits < MaxFits
    /\ rule_error = None
    /\ \E c2 \in CacheC2 :
        \E df \in {[c \in DOMAIN rule_df |->
                       IF c = ColName("c2", 0) THEN c2 ELSE rule_df[c]]} :
        \E st1 \in {Fit(Root, RuleState(df, rule_objs, None))} :
           /\ rule_df' = st1.df
           /\ rule_objs' = st1.objs
           /\ rule_error' = st1.error
           /\ child_vals' = IF st1.error = None THEN st1.vals ELSE None
    /\ nfits' = nfits + 1
    /\ out_groups' = None
    /\ rule_pc' = "fitted"
    /\ y_groups' = {}
    /\ y_graph' = {}
    /\ y_access' = NoAccess
    /\ UNCHANGED <<rule_tree, rule_level, leaf_level>>

\* root.groups
CacheReadGroups ==
    /\ rule_pc \in {"fitted", "read"}
    /\ rule_error = None
    /\ \E r \in {GroupsProperty(Root, RuleState(rule_df, rule_objs, None))} :
           /\ out_groups' = r.val
           /\ rule_objs' = r.st.objs
           /\ y_groups' = y_groups \cup {r.val}
    /\ y_access' = [prop |-> "groups", repeated |-> y_groups # {},
                    rebuilt |-> rule_objs[Root].update_groups]
    /\ rule_pc' = "read"
    /\ UNCHANGED <<rule_df, rule_tree, rule_level, leaf_level, nfits, child_vals,
                   rule_error, y_graph>>

\* root.graph
CacheReadGraph ==
    /\ rule_pc \in {"fitted", "read"}
    /\ rule_error = None
    /\ \E r \in {GraphProperty(Root, RuleState(rule_df, rule_objs, None))} :
           /\ rule_objs' = r.st.objs
           /\ y_graph' = y_graph \cup {r.val}
    /\ y_access' = [prop |-> "graph", repeated |-> y_graph # {},
                    rebuilt |-> rule_objs[Root].update_graph]
    /\ rule_pc' = "read"
    /\ UNCHANGED <<rule_df, rule_tree, rule_level, leaf_level, nfits, child_vals,
                   out_groups, rule_error, y_groups>>


(***************************************************************************)
(* Specifications                                                          *)
(***************************************************************************)

vars == <<vars_er, vars_metrics, vars_rules, vars_dedup, vars_split, vars_blocking,
         vars_clusters,
         vars_merge,
         vars_scores,
         vars_matrix,
         vars_cache>>

IdleEr ==
    /\ total_mentions = 0
    /\ drop_singletons = FALSE
    /\ pairs = {}
    /\ node_matches = None
    /\ labels = None
    /\ labels_src = None
    /\ out_pairs = None
    /\ er_pc = "idle"

IdleMetrics ==
    /\ true_labels = None
    /\ pred_labels = None
    /\ cm = None
    /\ m_pc = "idle"

IdleRules ==
    /\ rule_df = None
    /\ rule_tree = None
    /\ rule_level = None
    /\ leaf_level = None
    /\ rule_objs = None
    /\ nfits = 0
    /\ child_vals = None
    /\ out_groups = None
    /\ rule_error = None
    /\ rule_pc = "idle"

IdleDedup ==
    /\ d_n = 0
    /\ d_blocking = None
    /\ d_blocking_id = << >>
    /\ d_scores = << >>
    /\ d_raises = {}
    /\ d_splitter = None
    /\ d_threads = None
    /\ d_tasks = << >>
    /\ d_labels_ = << >>
    /\ d_cursor = None
    /\ d_emitted = << >>
    /\ d_compared = {}
    /\ d_error = None
    /\ d_pc = "idle"

IdleSplit ==
    /\ w_block = << >>
    /\ w_block_id = 0
    /\ w_splitter = None
    /\ w_call = None
    /\ w_windows = << >>
    /\ w_out = << >>
    /\ w_pc = "idle"

IdleBlocking ==
    /\ b_args = None
    /\ b_n = 0
    /\ b_blocking_id = << >>
    /\ b_blocking_fn = None
    /\ b_blocks = << >>
    /\ b_error = None
    /\ b_pc = "idle"

IdleClusters ==
    /\ c_clusters = << >>
    /\ c_total = 0
    /\ c_drop = FALSE
    /\ c_labels = None
    /\ c_error = None
    /\ c_pc = "idle"

IdleMerge ==
    /\ g_clusters_1 = << >>
    /\ g_clusters_2 = << >>
    /\ g_order = << >>
    /\ g_merged = << >>
    /\ g_pc = "idle"

IdleScores == IdleRatio /\ IdlePrecision

IdleMatrix ==
    /\ x_group = << >>
    /\ x_scores = << >>
    /\ x_threshold = 0
    /\ x_matrix = << >>
    /\ x_pc = "idle"

IdleCache ==
    /\ y_groups = {}
    /\ y_graph = {}
    /\ y_access = NoAccess

NextEr ==
    \/ ConsumePair /\ UNCHANGED <<vars_metrics, vars_rules, vars_dedup, vars_split, vars_blocking, vars_clusters, vars_merge, vars_scores, vars_matrix, vars_cache>>
    \/ FinishPairsToLabels /\ UNCHANGED <<vars_metrics, vars_rules, vars_dedup, vars_split, vars_blocking, vars_clusters, vars_merge, vars_scores, vars_matrix, vars_cache>>
    \/ GiveLabels /\ UNCHANGED <<vars_metrics, vars_rules, vars_dedup, vars_split, vars_blocking, vars_clusters, vars_merge, vars_scores, vars_matrix, vars_cache>>
    \/ CallLabelsToPairs /\ UNCHANGED <<vars_metrics, vars_rules, vars_dedup, vars_split, vars_blocking, vars_clusters, vars_merge, vars_scores, vars_matrix, vars_cache>>

ErInit == InitEr /\ IdleMetrics /\ IdleRules /\ IdleDedup /\ IdleSplit /\ IdleBlocking /\ IdleClusters /\ IdleMerge /\ IdleScores /\ IdleMatrix /\ IdleCache

SpecEr == ErInit /\ [][NextEr]_vars

NextMetrics ==
    \/ CallConfusionMatrix /\ UNCHANGED <<vars_er, vars_rules, vars_dedup, vars_split, vars_blocking, vars_clusters, vars_merge, vars_scores, vars_matrix, vars_cache>>

MetricsInit == InitMetrics /\ IdleEr /\ IdleRules /\ IdleDedup /\ IdleSplit /\ IdleBlocking /\ IdleClusters /\ IdleMerge /\ IdleScores /\ IdleMatrix /\ IdleCache

SpecMetrics == MetricsInit /\ [][NextMetrics]_vars

NextRules ==
    \/ RulesFit /\ UNCHANGED <<vars_er, vars_metrics, vars_dedup, vars_split, vars_blocking, vars_clusters, vars_merge, vars_scores, vars_matrix, vars_cache>>
    \/ RulesReadGroups /\ UNCHANGED <<vars_er, vars_metrics, vars_dedup, vars_split, vars_blocking, vars_clusters, vars_merge, vars_scores, vars_matrix, vars_cache>>

RulesInit == InitRules /\ IdleEr /\ IdleMetrics /\ IdleDedup /\ IdleSplit /\ IdleBlocking /\ IdleClusters /\ IdleMerge /\ IdleScores /\ IdleMatrix /\ IdleCache

SpecRules == RulesInit /\ [][NextRules]_vars

NextDedup ==
    \/ DedupFit /\ UNCHANGED <<vars_er, vars_metrics, vars_rules, vars_split, vars_blocking, vars_clusters, vars_merge, vars_scores, vars_matrix, vars_cache>>
    \/ DedupSubmit /\ UNCHANGED <<vars_er, vars_metrics, vars_rules, vars_split, vars_blocking, vars_clusters, vars_merge, vars_scores, vars_matrix, vars_cache>>
    \/ WorkerProcess /\ UNCHANGED <<vars_er, vars_metrics, vars_rules, vars_split, vars_blocking, vars_clusters, vars_merge, vars_scores, vars_matrix, vars_cache>>
    \/ WorkerReturn /\ UNCHANGED <<vars_er, vars_metrics, vars_rules, vars_split, vars_blocking, vars_clusters, vars_merge, vars_scores, vars_matrix, vars_cache>>
    \/ DedupYield /\ UNCHANGED <<vars_er, vars_metrics, vars_rules, vars_split, vars_blocking, vars_clusters, vars_merge, vars_scores, vars_matrix, vars_cache>>
    \/ DedupNextResult /\ UNCHANGED <<vars_er, vars_metrics, vars_rules, vars_split, vars_blocking, vars_clusters, vars_merge, vars_scores, vars_matrix, vars_cache>>
    \/ DedupFinish /\ UNCHANGED <<vars_er, vars_metrics, vars_rules, vars_split, vars_blocking, vars_clusters, vars_merge, vars_scores, vars_matrix, vars_cache>>

DedupInit == InitDedup /\ IdleEr /\ IdleMetrics /\ IdleRules /\ IdleSplit /\ IdleBlocking /\ IdleClusters /\ IdleMerge /\ IdleScores /\ IdleMatrix /\ IdleCache

SpecDedup == DedupInit /\ [][NextDedup]_vars

NextSplit ==
    \/ CallSlidingWindow
           /\ UNCHANGED <<vars_er, vars_metrics, vars_rules, vars_dedup, vars_blocking, vars_clusters, vars_merge, vars_scores, vars_matrix, vars_cache>>
    \/ CallSplitter
           /\ UNCHANGED <<vars_er, vars_metrics, vars_rules, vars_dedup, vars_blocking, vars_clusters, vars_merge, vars_scores, vars_matrix, vars_cache>>

SplitInit == InitSplit /\ IdleEr /\ IdleMetrics /\ IdleRules /\ IdleDedup /\ IdleBlocking /\ IdleClusters /\ IdleMerge /\ IdleScores /\ IdleMatrix /\ IdleCache

SpecSplit == SplitInit /\ [][NextSplit]_vars

NextBlocking ==
    \/ Construct
           /\ UNCHANGED <<vars_er, vars_metrics, vars_rules, vars_dedup, vars_split, vars_clusters, vars_merge, vars_scores, vars_matrix, vars_cache>>
    \/ BlockingFit
           /\ UNCHANGED <<vars_er, vars_metrics, vars_rules, vars_dedup, vars_split, vars_clusters, vars_merge, vars_scores, vars_matrix, vars_cache>>
    \/ BlockingIterBlocks
           /\ UNCHANGED <<vars_er, vars_metrics, vars_rules, vars_dedup, vars_split, vars_clusters, vars_merge, vars_scores, vars_matrix, vars_cache>>

BlockingInit ==
    InitBlocking /\ IdleEr /\ IdleMetrics /\ IdleRules /\ IdleDedup /\ IdleSplit /\ IdleClusters /\ IdleMerge /\ IdleScores /\ IdleMatrix /\ IdleCache

SpecBlocking == BlockingInit /\ [][NextBlocking]_vars

NextClusters ==
    \/ CallClustersToLabels
           /\ UNCHANGED <<vars_er, vars_metrics, vars_rules, vars_dedup, vars_split, vars_blocking, vars_merge, vars_scores, vars_matrix, vars_cache>>

ClustersInit ==
    InitClusters /\ IdleEr /\ IdleMetrics /\ IdleRules /\ IdleDedup /\ IdleSplit /\ IdleBlocking /\ IdleMerge /\ IdleScores /\ IdleMatrix /\ IdleCache

SpecClusters == ClustersInit /\ [][NextClusters]_vars


NextMerge ==
    \/ CallMergeClusterizations
           /\ UNCHANGED <<vars_er, vars_metrics, vars_rules, vars_dedup, vars_split, vars_blocking, vars_clusters, vars_scores, vars_matrix, vars_cache>>

MergeInit ==
    InitMerge /\ IdleEr /\ IdleMetrics /\ IdleRules /\ IdleDedup /\ IdleSplit /\ IdleBlocking /\ IdleClusters /\ IdleScores /\ IdleMatrix /\ IdleCache

SpecMerge == MergeInit /\ [][NextMerge]_vars


NextRatio ==
    \/ CallSplitter
           /\ UNCHANGED <<vars_er, vars_metrics, vars_rules, vars_dedup, vars_blocking, vars_clusters, vars_merge, vars_scores, vars_matrix, vars_cache>>
    \/ CountOperations
           /\ UNCHANGED <<vars_er, vars_metrics, vars_rules, vars_dedup, vars_split, vars_blocking, vars_clusters, vars_merge, vars_matrix, vars_cache>>
    \/ CallReductionRatio
           /\ UNCHANGED <<vars_er, vars_metrics, vars_rules, vars_dedup, vars_split, vars_blocking, vars_clusters, vars_merge, vars_matrix, vars_cache>>

RatioInit ==
    InitRatio /\ InitSplit /\ IdleEr /\ IdleMetrics /\ IdleRules /\ IdleDedup /\ IdleBlocking /\ IdleClusters /\ IdleMerge /\ IdleMatrix /\ IdleCache

SpecRatio == RatioInit /\ [][NextRatio]_vars

NextPrecision ==
    \/ CallPrecision
           /\ UNCHANGED <<vars_er, vars_metrics, vars_rules, vars_dedup, vars_split, vars_blocking, vars_clusters, vars_merge, vars_matrix, vars_cache>>
    \/ CallRecall
           /\ UNCHANGED <<vars_er, vars_metrics, vars_rules, vars_dedup, vars_split, vars_blocking, vars_clusters, vars_merge, vars_matrix, vars_cache>>

PrecisionInit ==
    InitPrecision /\ IdleEr /\ IdleMetrics /\ IdleRules /\ IdleDedup /\ IdleSplit /\ IdleBlocking /\ IdleClusters /\ IdleMerge /\ IdleMatrix /\ IdleCache

SpecPrecision == PrecisionInit /\ [][NextPrecision]_vars


NextMatrix ==
    \/ BuildSimMatrix
           /\ UNCHANGED <<vars_er, vars_metrics, vars_rules, vars_dedup, vars_split, vars_blocking, vars_clusters, vars_merge, vars_scores, vars_cache>>

MatrixInit ==
    InitMatrix /\ IdleEr /\ IdleMetrics /\ IdleRules /\ IdleDedup /\ IdleSplit /\ IdleBlocking /\ IdleClusters /\ IdleMerge /\ IdleScores /\ IdleCache

SpecMatrix == MatrixInit /\ [][NextMatrix]_vars


NextCache ==
    \/ CacheFit
           /\ UNCHANGED <<vars_er, vars_metrics, vars_dedup, vars_split, vars_blocking, vars_clusters, vars_merge, vars_scores, vars_matrix>>
    \/ CacheReadGroups
           /\ UNCHANGED <<vars_er, vars_metrics, vars_dedup, vars_split, vars_blocking, vars_clusters, vars_merge, vars_scores, vars_matrix>>
    \/ CacheReadGraph
           /\ UNCHANGED <<vars_er, vars_metrics, vars_dedup, vars_split, vars_blocking, vars_clusters, vars_merge, vars_scores, vars_matrix>>

CacheInit ==
    InitCache /\ IdleEr /\ IdleMetrics /\ IdleDedup /\ IdleSplit /\ IdleBlocking /\ IdleClusters /\ IdleMerge /\ IdleScores /\ IdleMatrix

SpecCache == CacheInit /\ [][NextCache]_vars


(***************************************************************************)
(* Claims about utils/er_utils.py                                          *)
(***************************************************************************)

\* every two pairs of P that share a mention are closed by a third pair
TransitivelyClosed(P) ==
    \A e1, e2 \in P : (e1 # e2 /\ e1 \cap e2 # {}) =>
        ((e1 \cup e2) \ (e1 \cap e2)) \in P

\* labels is the labelling a union-find over `pairs` gives: two mentions
\* share a (non-negative) label iff they are connected, and an unlinked
\* mention has a label of its own, or -1 under drop_singletons
LabelsAreComponents ==
    /\ \A i, j \in Mentions : i # j =>
          ((labels[i] = labels[j] /\ labels[i] # -1) <=> j \in Component(pairs, i))
    /\ \A i \in Mentions :
          IF drop_singletons /\ Component(pairs, i) = {i}
          THEN labels[i] = -1
          ELSE labels[i] # -1

PairsToLabelsDone ==
    er_pc \in {"labels", "pairs"} /\ labels_src = "pairs_to_labels"

\* C7 as stated: for every list of pairs, transitively closed or not,
\* pairs_to_labels labels the mentions by the connected components of the
\* graph of the pairs (singletons: a label of their own, or -1)
C7_AnyPairsGiveComponents == PairsToLabelsDone => LabelsAreComponents

\* C7 amended: the same, for lists of pairs that are transitively closed
C7_ClosedPairsGiveComponents ==
    (PairsToLabelsDone /\ TransitivelyClosed(pairs)) => LabelsAreComponents

\* a closed list holding a triangle has been labelled, one mention unlinked
C7_Witness ==
    /\ PairsToLabelsDone
    /\ TransitivelyClosed(pairs)
    /\ total_mentions = 4
    /\ pairs = {{0, 2}, {2, 3}, {0, 3}}
    /\ drop_singletons
    /\ labels[1] = -1

UnorderedPairs(seq) == {{seq[k][1], seq[k][2]} : k \in DOMAIN seq}

RoundTripDone ==
    er_pc = "pairs" /\ labels_src = "pairs_to_labels" /\ ~drop_singletons

\* C8: for a transitively closed P, in any list order,
\* labels_to_pairs(pairs_to_labels(P, N)) is P as a set of linked pairs
C8_RoundTrip ==
    (RoundTripDone /\ TransitivelyClosed(pairs)) =>
        /\ out_pairs # AssertionError
        /\ UnorderedPairs(out_pairs) = pairs

\* the round trip was made on two clusters of two mentions each
C8_Witness ==
    /\ RoundTripDone
    /\ pairs = {{0, 3}, {1, 2}}
    /\ Len(out_pairs) = 2

SameLabelPairs == {<<i, j>> \in Mentions \X Mentions : i < j /\ labels[i] = labels[j]}

\* C9 as stated: without -1, exactly one pair per unordered same-label pair
\* of positions, no other pair, each stored as (min, max); with -1, rejected
C9_PairsMinMax ==
    er_pc = "pairs" =>
        IF \E i \in Mentions : labels[i] = -1
        THEN out_pairs = AssertionError
        ELSE /\ out_pairs # AssertionError
             /\ Len(out_pairs) = Cardinality(SameLabelPairs)
             /\ \A q \in SameLabelPairs : \E k \in DOMAIN out_pairs : out_pairs[k] = q

\* C9 amended: the same, each pair stored as (max, min), the later position
\* first
C9_PairsMaxMin ==
    er_pc = "pairs" =>
        IF \E i \in Mentions : labels[i] = -1
        THEN out_pairs = AssertionError
        ELSE /\ out_pairs # AssertionError
             /\ Len(out_pairs) = Cardinality(SameLabelPairs)
             /\ \A q \in SameLabelPairs :
                   \E k \in DOMAIN out_pairs : out_pairs[k] = <<q[2], q[1]>>

\* labels_to_pairs ran on the docstring's list [0, 0, 1, 0]
C9_Witness ==
    /\ er_pc = "pairs"
    /\ labels_src = "input"
    /\ total_mentions = 4
    /\ labels = [i \in 0 .. 3 |-> IF i = 2 THEN 1 ELSE 0]
    /\ out_pairs = << <<1, 0>>, <<3, 0>>, <<3, 1>> >>

(***************************************************************************)
(* Claims about metrics/functional.py                                      *)
(***************************************************************************)

Positions == DOMAIN pred_labels

PositionPairs == {<<i, j>> \in Positions \X Positions : i < j}

CountPairs(samePred, sameTrue) ==
    Cardinality({q \in PositionPairs :
        /\ (pred_labels[q[1]] = pred_labels[q[2]]) = samePred
        /\ (true_labels[q[1]] = true_labels[q[2]]) = sameTrue})

\* C10: TP, FP, FN, TN count the position pairs that are same-predicted and
\* same-true, same-predicted only, same-true only, and neither; so all four
\* are non-negative and add up to C(N, 2)
C10_ConfusionMatrixCounts ==
    m_pc = "confusion_matrix" =>
        /\ cm.TP = CountPairs(TRUE, TRUE)
        /\ cm.FP = CountPairs(TRUE, FALSE)
        /\ cm.FN = CountPairs(FALSE, TRUE)
        /\ cm.TN = CountPairs(FALSE, FALSE)
        /\ cm.TP >= 0 /\ cm.FP >= 0 /\ cm.FN >= 0 /\ cm.TN >= 0
        /\ cm.TP + cm.FP + cm.FN + cm.TN = Comb2(Cardinality(Positions))

\* scenario S6: true = [0, 0, 1, 2], pred = [0, 0, 1, 1] gives 1, 1, 0, 4
C10_Witness ==
    /\ m_pc = "confusion_matrix"
    /\ true_labels = [i \in 0 .. 3 |-> IF i < 2 THEN 0 ELSE i - 1]
    /\ pred_labels = [i \in 0 .. 3 |-> IF i < 2 THEN 0 ELSE 1]
    /\ cm = [TP |-> 1, FP |-> 1, FN |-> 0, TN |-> 4]


(***************************************************************************)
(* Claims about blockings/rules                                            *)
(***************************************************************************)

\* the root is a GroupByLogicalAND or GroupByLogicalOR
RootIsNode == ~rule_tree.nodes[Root].leaf

\* two records share a label under the k-th child of the root, by the label
\* vector the root's fit got from that child
ShareUnder(k, i, j) == child_vals[k][i] = child_vals[k][j]

\* the pairs of records that share a label under at least one child
ShareUnderSome ==
    {e \in AllEdges : \E k \in DOMAIN child_vals : \A i, j \in e : ShareUnder(k, i, j)}

OriginalDf == [c \in {x \in DOMAIN rule_df : x.enc = 0} |-> rule_df[c]]

\* root.fit(df).groups of a newly constructed tree on the original dataframe
FreshGroups(tree, level, llevel) ==
    GroupsProperty(tree.root,
                   Fit(tree.root,
                       RuleState(OriginalDf, NewObjs(tree, level, llevel), None))).val

\* the root is a GroupByCombinationsExceptK
IsExceptK == rule_tree.nodes[Root].lvl = "groups"

\* C2: a tree whose nodes are all at level=graph, fitted once, raises
\* nothing and its groups induce the same partition of the records as the
\* groups of the same tree with all nodes at level=groups.
C2_LevelsAgree ==
    (rule_level = "graph" /\ RootIsNode /\ ~IsExceptK /\ nfits = 1) =>
        /\ rule_error = None
        /\ rule_pc = "read" =>
               SamePartition(out_groups, FreshGroups(rule_tree, "groups", "groups"))

\* the same with the leaves left at their default level=groups, which is
\* what lets the fit of a graph-level tree complete
C2_LevelsAgreeOverGroupsLeaves ==
    (rule_level = "graph" /\ leaf_level = "groups" /\ RootIsNode /\ ~IsExceptK
        /\ nfits = 1 /\ rule_pc = "read") =>
        SamePartition(out_groups, FreshGroups(rule_tree, "groups", "groups"))

\* the root is AND(r, r), OR(r, r) or AND(r, OR(r, s)), r being object 1
IsRR == rule_tree.nodes[Root].rules = <<Obj(1), Obj(1)>>

IsAbsorption ==
    /\ Len(rule_tree.nodes) = 4
    /\ rule_tree.nodes[4] = Node("AND", <<1, 3>>)
    /\ rule_tree.nodes[3] = Node("OR", <<1, 2>>)

\* C3: AND(r, r), OR(r, r) and AND(r, OR(r, s)), fitted once, produce the
\* same partition of the records as r alone, with or without an encoder on r.
C3_IdempotentAbsorbing ==
    (rule_pc = "read" /\ nfits = 1 /\ (IsRR \/ IsAbsorption)) =>
        SamePartition(out_groups,
                      FreshGroups(Tree(<<rule_tree.nodes[1]>>), leaf_level, leaf_level))


\* the label vector of each column of the original dataframe: the children
\* r1 .. rn of a GroupByCombinationsExceptK
ColumnLabels ==
    [a \in {x.attr : x \in DOMAIN OriginalDf} |-> Factorize(OriginalDf[ColName(a, 0)])]

\* the pairs of records that have the same label under at least m children
AgreeOnAtLeast(m) ==
    {e \in AllEdges :
        Cardinality({a \in DOMAIN ColumnLabels :
                        \A i, j \in e : ColumnLabels[a][i] = ColumnLabels[a][j]}) >= m}

\* the number n - k of children each combination holds
CombinationSize == Len(rule_tree.nodes[rule_tree.nodes[Root].rules[1].id].rules)

\* C16: GroupByCombinationsExceptK(r1..rn, k), 0 <= k < n, fitted once at
\* the level requested, raises nothing, and its groups put two records
\* together iff a chain links them in which each consecutive pair agrees on
\* at least n - k of the children (the OR over the ANDs of all subsets of
\* size n - k; with k = 0 the AND of all children).
C16_ExceptKIsOrOfAnds ==
    (IsExceptK /\ nfits = 1) =>
        /\ rule_error = None
        /\ rule_pc = "read" =>
               \A i, j \in Rows :
                   (out_groups[i] = out_groups[j])
                       <=> j \in Component(AgreeOnAtLeast(CombinationSize), i)

\* the partition half alone: wherever the fit raised nothing, the groups
\* read are those of the OR over the ANDs
C16_ExceptKWhereFitCompletes ==
    (IsExceptK /\ nfits = 1 /\ rule_pc = "read") =>
        \A i, j \in Rows :
            (out_groups[i] = out_groups[j])
                <=> j \in Component(AgreeOnAtLeast(CombinationSize), i)

\* the root is a rule over column names, fitted at level=groups: its fit
\* called make_groups on each of them
RootFactorizes ==
    /\ rule_pc \in {"fitted", "read"}
    /\ rule_error = None
    /\ rule_tree.nodes[Root].leaf
    /\ rule_objs[Root].level = "groups"

\* the column the k-th rule of the root names
RootColumn(k) == rule_df[rule_objs[Root].rules[k].name]

\* every rule object of the tree is a conjunction
AllAnd == \A id \in DOMAIN rule_tree.nodes : rule_tree.nodes[id].kind = "AND"

\* the records that miss a value in some column the tree reads
MissingSome ==
    {i \in Rows : \E a \in Attrs(rule_tree) : rule_df[ColName(a, 0)][i] = NaN}

\* C17: in the label vector make_groups gives a column of N records, every
\* record with a missing value has a label in [N, 2N) that no other record
\* has, and two records with present values have the same label iff their
\* values are equal; and in the groups of a rule made of conjunctions only,
\* a record that misses a value in any of its columns shares its group with
\* no other record.
C17_MissingValuesNeverMatch ==
    /\ RootFactorizes =>
           \A k \in DOMAIN child_vals : \A i \in Rows :
               IF RootColumn(k)[i] = NaN
               THEN /\ child_vals[k][i] \in NumRecords .. (2 * NumRecords - 1)
                    /\ \A j \in Rows \ {i} : child_vals[k][j] # child_vals[k][i]
               ELSE \A j \in Rows :
                        RootColumn(k)[j] # NaN =>
                            ((child_vals[k][i] = child_vals[k][j])
                                <=> RootColumn(k)[i] = RootColumn(k)[j])
    /\ (rule_pc = "read" /\ AllAnd) =>
           \A i \in MissingSome : \A j \in Rows \ {i} : out_groups[i] # out_groups[j]

\* ExactGroupBy('c1', 'c2') was fitted and read on a dataframe where two
\* records miss c2 and agree on c1
C17_Witness ==
    /\ RootFactorizes
    /\ rule_pc = "read"
    /\ Len(child_vals) = 2
    /\ \E i, j \in Rows :
           /\ i # j
           /\ RootColumn(2)[i] = NaN
           /\ RootColumn(2)[j] = NaN
           /\ RootColumn(1)[i] = RootColumn(1)[j]

(***************************************************************************)
(* Claims about deduplicator.py                                            *)
(***************************************************************************)

\* the places of the yielded clusters where record i is found: cluster,
\* mention, and position in the mention
PlacesOf(i) ==
    {x \in UNION {{<<c, m, k>> : m \in DOMAIN d_emitted[c], k \in 1 .. 2} :
                     c \in DOMAIN d_emitted} :
        /\ x[3] \in DOMAIN d_emitted[x[1]][x[2]]
        /\ d_emitted[x[1]][x[2]][x[3]] = i}

\* C4: whatever the blocking, the splitter and the number of workers, no
\* record index is found twice in the clusters yielded so far, neither in
\* two clusters nor twice in one.
C4_ClustersDisjoint == \A i \in Records : Cardinality(PlacesOf(i)) <= 1

\* some block exceeded max_block_size and went through the splitter's windows
SomeBlockSplit ==
    /\ d_splitter.on
    /\ \E b \in Records :
           Cardinality({i \in Records : d_blocking_id[i] = b}) > d_splitter.max_block_size

\* a run with a splitter, one block of which was split, has finished and
\* has yielded two clusters
C4_Witness ==
    /\ d_pc = "finished"
    /\ d_blocking = "RuleBasedBlocking"
    /\ SomeBlockSplit
    /\ Len(d_emitted) >= 2

\* C5: no cluster yielded has fewer than two members.
C5_NoSmallCluster == \A c \in DOMAIN d_emitted : Len(d_emitted[c]) >= 2

\* C6: after fit on N records CartesianBlocking hands the engine exactly one
\* block, the N records each once, and a finished run has compared every
\* one of the C(N,2) record pairs.
C6_CartesianOneBlockOfRecords ==
    (d_blocking = "CartesianBlocking" /\ d_pc \in {"running", "finished"}) =>
        /\ Len(d_tasks) = 1
        /\ d_tasks[1].group = [p \in 1 .. d_n |-> <<p - 1>>]
        /\ d_pc = "finished" => Cardinality(d_compared) = Comb2(d_n)

\* the clusters the call of _block_process for task k has returned
ReturnedClusters(k) == Range(to_iter(d_tasks[k].labels, d_tasks[k].group))

\* C11: a block whose processing raised does not end the run with its
\* exception, and a finished run has yielded the clusters of every block
\* that did not raise.
C11_FailedBlockSkipped ==
    /\ d_pc = "raised" => \A k \in DOMAIN d_tasks : d_tasks[k].pc # "raised"
    /\ d_pc = "finished" =>
           \A k \in DOMAIN d_tasks :
               d_tasks[k].pc # "raised" => ReturnedClusters(k) \subseteq Range(d_emitted)

\* what _block_process makes of a block when no other call runs between
\* its DBSCAN.fit and its reading of labels_
SequentialClusters(group) ==
    Range(to_iter(IF Len(group) = 1 THEN <<0>> ELSE Dbscan(group, d_scores), group))

\* C12: with one worker or more, the clusters a finished run has yielded
\* are, as a collection of member lists, those the blocks give when they are
\* processed one after the other.
C12_SameClustersUnderEveryInterleaving ==
    (d_pc = "finished" /\ NumThreads(d_threads, d_n) >= 1) =>
        Range(d_emitted) = UNION {SequentialClusters(d_tasks[k].group) : k \in DOMAIN d_tasks}


\* the pairs of positions of a block whose records are within eps of each
\* other
EpsGraph(group) ==
    {e \in SUBSET (DOMAIN group) :
        /\ Cardinality(e) = 2
        /\ \A p, q \in e : Distance(group, d_scores, p, q) <= eps}

\* C15: in every block a rule-based run has processed, two records have the
\* same non-negative label iff a chain of records of the block links them,
\* each within eps of the next, and a record with no other record of the
\* block within eps has the label -1 and is in no cluster yielded.
C15_LabelsAreDensityComponents ==
    \A k \in DOMAIN d_tasks :
        (d_blocking = "RuleBasedBlocking" /\ d_tasks[k].pc = "done") =>
            \E group \in {d_tasks[k].group}, labs \in {d_tasks[k].labels} :
                /\ DOMAIN labs = DOMAIN group
                /\ \A p, q \in DOMAIN group :
                       p # q => ((labs[p] = labs[q] /\ labs[p] >= 0)
                                    <=> q \in Component(EpsGraph(group), p))
                /\ \A p \in DOMAIN group :
                       Component(EpsGraph(group), p) = {p} =>
                           /\ labs[p] = -1
                           /\ \A c \in DOMAIN d_emitted : group[p] \notin Range(d_emitted[c])

(***************************************************************************)
(* Claims about the splitter and sliding_window                            *)
(***************************************************************************)

\* s holds the records of block, each once, in non-decreasing order of key
IsSortedBy(s, block, key) ==
    /\ Len(s) = Len(block)
    /\ Range(s) = Range(block)
    /\ \A p, q \in DOMAIN s : p < q => key[s[p][1]] <= key[s[q][1]]

\* items is the run of at most window_size consecutive elements of s that
\* starts at offset
IsRunAt(items, s, offset, window_size) ==
    /\ Len(items) <= window_size
    /\ \A p \in DOMAIN items : offset + p \in DOMAIN s /\ items[p] = s[offset + p]
    /\ Len(items) < window_size => offset + Len(items) >= Len(s)

\* C13: the splitter emits a block within max_block_size once and as it
\* is; of a larger block every sub-block emitted carries the block_id given,
\* and the k-th is the run of at most window_size consecutive records, from
\* offset (k - 1) * step_size, of the block sorted by the key.
C13_SplitterWindows ==
    (w_pc = "called" /\ w_call = "splitter") =>
        IF Len(w_block) <= w_splitter.max_block_size
        THEN /\ Len(w_out) = 1
             /\ w_out[1].id = w_block_id
             /\ w_out[1].items = w_block
        ELSE \E s \in {Sorted(w_block, w_splitter.key)} :
                /\ IsSortedBy(s, w_block, w_splitter.key)
                /\ \A k \in DOMAIN w_out :
                       /\ w_out[k].id = w_block_id
                       /\ IsRunAt(w_out[k].items, s, (k - 1) * w_splitter.step_size,
                                  w_splitter.window_size)

\* a block larger than max_block_size, not in the order of its keys, was
\* split into three sub-blocks or more
C13_Witness ==
    /\ w_pc = "called"
    /\ w_call = "splitter"
    /\ Len(w_block) > w_splitter.max_block_size
    /\ Sorted(w_block, w_splitter.key) # w_block
    /\ w_splitter.step_size > 1
    /\ Len(w_out) >= 3

\* the windows claimed of n items with window size W and step 1
ClaimedWindows(windows, n, W) ==
    /\ Len(windows) = IF n < W THEN 0 ELSE n - W + 1
    /\ \A k \in DOMAIN windows : Len(windows[k]) = W

\* C14: with step 1, sliding_window over n items yields n - W + 1 windows
\* of exactly W items each, none when n < W, and so does the splitter for
\* a block larger than max_block_size.
C14_WindowCount ==
    (w_pc = "called" /\ w_splitter.step_size = 1) =>
        /\ w_call = "sliding_window" =>
               ClaimedWindows(w_windows, Len(w_block), w_splitter.window_size)
        /\ (w_call = "splitter" /\ Len(w_block) > w_splitter.max_block_size) =>
               ClaimedWindows(w_out, Len(w_block), w_splitter.window_size)


(***************************************************************************)
(* Claims about the construction, fit and iter_blocks of the blockings     *)
(***************************************************************************)

\* the records given to fit
FitRecords == 0 .. (b_n - 1)

\* the emitted blocks that hold record i
BlocksOf(i) == {k \in DOMAIN b_blocks : <<i>> \in Range(b_blocks[k].items)}

\* list(iter_blocks()) of a fitted RuleBasedBlocking without a splitter
IteratedUnsplit ==
    /\ b_pc = "iterated"
    /\ b_blocking_fn.class = "RuleBasedBlocking"
    /\ ~b_blocking_fn.splitter.on

\* C18: without a splitter, no record is in two blocks emitted by
\* RuleBasedBlocking.iter_blocks nor twice in one, two records of one block
\* have the same label of the rule, and without a filter every record
\* given to fit is in exactly one block.
C18_BlocksPartitionRecords ==
    IteratedUnsplit =>
        /\ \A i \in FitRecords : Cardinality(BlocksOf(i)) <= 1
        /\ \A k \in DOMAIN b_blocks :
               /\ \A p, q \in DOMAIN b_blocks[k].items :
                      /\ p # q => b_blocks[k].items[p] # b_blocks[k].items[q]
                      /\ b_blocking_id[b_blocks[k].items[p][1]]
                             = b_blocking_id[b_blocks[k].items[q][1]]
        /\ ~b_blocking_fn.filters.on =>
               \A i \in FitRecords : Cardinality(BlocksOf(i)) = 1

\* three records in two blocks were emitted, with neither splitter nor filter
C18_Witness ==
    /\ IteratedUnsplit
    /\ ~b_blocking_fn.filters.on
    /\ b_n = 3
    /\ Len(b_blocks) = 2

\* the configuration given to Deduplicator(...) is invalid
InvalidConfiguration ==
    \/ b_args.aggregation_strategy \notin AggregationStrategies
    \/ b_args.comparators = 0
    \/ ~b_args.has_attributes /\ ~b_args.has_rule

\* C19: Deduplicator(...) with an unknown aggregation strategy, an empty
\* comparator list, or neither blocking_attributes nor blocking_rule raises
\* in the constructor: no engine is ever constructed from it.
C19_InvalidConfigurationFailsFast ==
    (b_args.entry = "Deduplicator" /\ InvalidConfiguration /\ b_pc # "new") =>
        /\ b_pc = "construction"
        /\ b_error # None

\* C20: fit of zero records raises, whichever blocking was constructed,
\* and leaves it without data and with no block emitted.
C20_EmptyInputRaises ==
    (b_n = 0 /\ b_pc \notin {"new", "construction", "constructed"}) =>
        /\ b_pc = "fit"
        /\ b_error = ValueError
        /\ ~b_blocking_fn.has_data
        /\ b_blocks = << >>


(***************************************************************************)
(* Claims about clusters_to_labels                                         *)
(***************************************************************************)

\* some mention id is a member of two clusters at different positions
DuplicateMembership ==
    \E i, j \in DOMAIN c_clusters : i # j /\ c_clusters[i] \cap c_clusters[j] # {}

\* C21: whenever a mention id appears in two different clusters of the input,
\* clusters_to_labels raises and returns no label list, wherever the two
\* clusters are in the list and whatever drop_singletons is
C21_DuplicateMembershipRaises ==
    (c_pc = "done" /\ DuplicateMembership) =>
        (c_error = ValueError /\ c_labels = None)

\* the call has raised for a mention shared by cluster 0 and the last of
\* three clusters, with and without drop_singletons
C21_Witness ==
    /\ c_pc = "done"
    /\ Len(c_clusters) = 3
    /\ c_clusters[1] \cap c_clusters[3] # {}
    /\ c_clusters[1] \cap c_clusters[2] = {}
    /\ c_clusters[2] \cap c_clusters[3] = {}
    /\ c_drop
    /\ c_error = ValueError

\* the positions of a label list grouped by label
GroupsOfLabels(labs) ==
    {{m \in DOMAIN labs : labs[m] = labs[node]} : node \in DOMAIN labs}

\* C22: for pairwise disjoint clusters over 0..N-1, the positions of
\* clusters_to_labels(clusters, N) grouped by label are the input clusters,
\* and each mention of no cluster is a group of its own
C22_GroupingGivesBackClusters ==
    (c_pc = "done" /\ ~c_drop /\ ~DuplicateMembership) =>
        /\ c_error = None
        /\ GroupsOfLabels(c_labels) =
               Range(c_clusters)
                   \cup {{m} : m \in (0 .. (c_total - 1)) \ UNION Range(c_clusters)}

\* a cluster of two mentions has been labelled, together with a mention left
\* in no cluster
C22_Witness ==
    /\ c_pc = "done"
    /\ ~c_drop
    /\ ~DuplicateMembership
    /\ \E k \in DOMAIN c_clusters : Cardinality(c_clusters[k]) = 2
    /\ UNION Range(c_clusters) # 0 .. (c_total - 1)
    /\ c_error = None

(***************************************************************************)
(* Claims about merge_clusterizations                                      *)
(***************************************************************************)

\* the entities of a list of clusters
EntitiesOf(clusters) == UNION Range(clusters)

\* each entity of the two inputs is in exactly one returned cluster
MergedPartitionsUnion ==
    /\ EntitiesOf(g_merged) = EntitiesOf(g_clusters_1) \cup EntitiesOf(g_clusters_2)
    /\ \A c, d \in DOMAIN g_merged : c # d => g_merged[c] \cap g_merged[d] = {}

\* two entities that share a cluster of `clusters` share a returned cluster
KeepsTogether(clusters) ==
    \A c \in DOMAIN clusters : \E d \in DOMAIN g_merged : clusters[c] \subseteq g_merged[d]

\* C23: the clusters returned by merge_clusterizations partition the union
\* of the entities of the two inputs, and two entities that share a cluster
\* in either input share a cluster in the result, whatever the order in
\* which the entities are visited
C23_MergeCombinesOverlaps ==
    g_pc = "done" =>
        /\ MergedPartitionsUnion
        /\ KeepsTogether(g_clusters_1)
        /\ KeepsTogether(g_clusters_2)

(***************************************************************************)
(* Claims about reduction_ratio, precision and recall                      *)
(***************************************************************************)

\* the fraction f lies in [lo, hi]
FractionWithin(f, lo, hi) ==
    /\ f.den > 0
    /\ lo * f.den <= f.num
    /\ f.num <= hi * f.den

\* C24: reduction_ratio returns 0 when a count is missing or before is 0,
\* and otherwise (1 - after/before) * 100, a value in [0, 100] for the
\* counts taken on the blocks emitted, overlapping sub-blocks included
C24_ReductionRatioInRange ==
    q_pc = "done" =>
        IF q_given # {"before", "after"} \/ q_before = {0}
        THEN q_ratio = Fraction(0, 1)
        ELSE /\ q_ratio.den = Only(q_before)
             /\ q_ratio.num = 100 * (Only(q_before) - Only(q_after))
             /\ FractionWithin(q_ratio, 0, 100)

\* C25: when pred_labels and true_labels induce the same partition,
\* precision and recall are both 100, also when no two records share a
\* label; recall is precision with the two arguments swapped
C25_SamePartitionScoresHundred ==
    /\ ("precision" \in p_pc /\ SamePartition(p_true, p_pred)) =>
           FractionWithin(p_precision, 100, 100)
    /\ ("recall" \in p_pc /\ SamePartition(p_true, p_pred)) =>
           FractionWithin(p_recall, 100, 100)
    /\ "recall" \in p_pc => p_recall = precision(p_pred, p_true)

\* precision and recall have been computed for label lists that differ but
\* induce the same partition, in which some records share a label
C25_Witness ==
    /\ p_pc = {"precision", "recall"}
    /\ SamePartition(p_true, p_pred)
    /\ p_true # p_pred
    /\ \E i, j \in DOMAIN p_pred : i # j /\ p_pred[i] = p_pred[j]
    /\ p_precision = Fraction(100, 1)

\* precision and recall have been computed for label lists in which no two
\* records share a label
C25_NoPairs ==
    /\ p_pc = {"precision", "recall"}
    /\ Cardinality(DOMAIN p_pred) > 1
    /\ \A i, j \in DOMAIN p_pred : i # j => (p_pred[i] # p_pred[j] /\ p_true[i] # p_true[j])

(***************************************************************************)
(* Further claims about the engine                                         *)
(***************************************************************************)

\* C26: under every interleaving of the workers the labels a finished call
\* of _block_process has used for its block are those clustered from the
\* block's own similarity matrix, one label per record of the block
C26_TaskUsesOwnLabels ==
    \A k \in DOMAIN d_tasks :
        (d_tasks[k].pc = "done" /\ Len(d_tasks[k].group) > 1) =>
            /\ Len(d_tasks[k].labels) = Len(d_tasks[k].group)
            /\ d_tasks[k].labels = Dbscan(d_tasks[k].group, d_scores)

\* the aggregated score of the records at positions p and q of the block,
\* kept when it reaches the threshold
ThresholdedScore(p, q) ==
    LET score == x_scores[{x_group[p][1], x_group[q][1]}]
    IN  IF score >= x_threshold THEN score ELSE 0

\* C27: the matrix handed to the clusterer for a block of n >= 2 records is
\* n x n, symmetric, 1 on its diagonal, and off the diagonal it holds the
\* aggregated score of the two records when that score reaches the
\* threshold and 0 otherwise
C27_SimMatrixEntries ==
    x_pc = "built" =>
        /\ DOMAIN x_matrix = (DOMAIN x_group) \X (DOMAIN x_group)
        /\ \A p, q \in DOMAIN x_group :
              /\ x_matrix[<<p, q>>] = x_matrix[<<q, p>>]
              /\ p = q => x_matrix[<<p, q>>] = 100
              /\ p < q => x_matrix[<<p, q>>] = ThresholdedScore(p, q)

\* the matrix of a block of four records has been built, with a score under
\* the threshold, a score equal to it, and different scores at the third
\* and fourth candidate links
C27_Witness ==
    /\ x_pc = "built"
    /\ Len(x_group) = 4
    /\ x_threshold = 90
    /\ x_matrix[<<1, 4>>] = 90
    /\ x_matrix[<<2, 3>>] = 0
    /\ x_scores[{x_group[2][1], x_group[3][1]}] = 50

(***************************************************************************)
(* Claims about the graph and groups properties of a rule                  *)
(***************************************************************************)

\* the pairs of records the most recent fit of the root links: those its
\* children's label vectors all (AND) or some (OR) put together at level
\* groups, those in all (AND) or some (OR) of its children's graphs at level
\* graph, and for the connected-components rule the edges of its rule's
\* graph
FittedLinks ==
    LET root == rule_objs[Root]
        agree(k, e) == IF root.level = "groups" /\ root.kind # "CC"
                       THEN \A a, b \in e : child_vals[k][a] = child_vals[k][b]
                       ELSE e \in child_vals[k]
    IN  {e \in AllEdges :
            IF root.kind = "AND" THEN \A k \in DOMAIN child_vals : agree(k, e)
            ELSE \E k \in DOMAIN child_vals : agree(k, e)}

\* the label vector puts together exactly the records the edges E connect
DenotesComponents(labs, E) ==
    \A i, j \in Rows : (labs[i] = labs[j]) <=> (j \in Component(E, i))

\* C28: after any fits that completed and any accesses, each value .groups
\* has returned since the last fit, and the connected components of each
\* value .graph has returned since, are the partition of that fit; each
\* property has returned one value only, and an access that repeats one
\* rebuilds nothing
C28_PropertiesDenoteLastFit ==
    (rule_pc = "read" /\ rule_error = None) =>
        /\ \A groups \in y_groups : DenotesComponents(groups, FittedLinks)
        /\ \A graph \in y_graph :
               \A i \in Rows : Component(graph, i) = Component(FittedLinks, i)
        /\ Cardinality(y_groups) <= 1
        /\ Cardinality(y_graph) <= 1
        /\ y_access.repeated => ~y_access.rebuilt

\* after a second fit that changed the partition, and after the graph had
\* been read between the fits, both properties have been read and one of
\* them read again
C28_Witness ==
    /\ rule_pc = "read"
    /\ nfits = 2
    /\ y_groups # {}
    /\ y_graph # {}
    /\ y_access.repeated
    /\ rule_objs[Root].kind = "AND"
    /\ rule_objs[Root].level = "groups"
    /\ \E i, j \in Rows : i # j /\ {i, j} \notin FittedLinks

\* the records found in the sub-blocks the splitter emitted
EmittedRecords ==
    UNION {{w_out[k].items[p] : p \in DOMAIN w_out[k].items} : k \in DOMAIN w_out}

\* C29: when the splitter has split a block larger than max_block_size,
\* every record of the block is in at least one of the sub-blocks emitted
C29_SplitLeavesNoRecordOut ==
    (w_pc = "called" /\ w_call = "splitter"
        /\ Len(w_block) > w_splitter.max_block_size) =>
        \A p \in DOMAIN w_block : w_block[p] \in EmittedRecords

\* C30: when num_threads is not given and there is at least one record, the
\* worker count the executor is created with is
\* max(1, min(floor(cores / 2), N)), which is at least 1
C30_DefaultWorkerCount ==
    (d_pc \in {"running", "raised", "finished"} /\ ~d_threads.given /\ d_n >= 1) =>
        /\ NumThreads(d_threads, d_n)
               = Max({1, Min({d_threads.cpu_count \div 2, d_n})})
        /\ NumThreads(d_threads, d_n) >= 1

=============================================================================
